---- MODULE Spec2Model ----
(***************************************************************************)
(* Model of the GPU depth-ordering subsystem of gaussian-splatting-web:    *)
(* the bitonic argsort engine (BitonicSorter, scalar and vec4 kernels),    *)
(* the depth key pipeline and draw-order expander (DepthSorter) and the    *)
(* blend stage of the splat rasterizer (Renderer).                         *)
(*                                                                         *)
(* GPU buffers are sequences; element i of a buffer is buf[i+1].  The      *)
(* device queue executes submitted commands in order; the invocations       *)
(* (lanes) of a compute dispatch take their steps in any order, and the     *)
(* next command starts only when every lane of the dispatch has ended.      *)
(* An invocation whose accesses no other invocation can touch runs as one   *)
(* step; an iteration of the scalar sort kernel that shares an element with *)
(* another invocation takes one step per group of memory accesses.          *)
(*                                                                         *)
(* The page (index.ts) is modelled as an event loop: every handler, timer   *)
(* callback and promise continuation is one step, and a continuation that   *)
(* is ready runs before the next event.  In the model of the page a buffer  *)
(* is represented by the camera revision its content was derived from.      *)
(***************************************************************************)
(* The PLY loader (PackedGaussians) is modelled by its header analysis.     *)
(* The buffer layouts of packing.ts are modelled by the offsets pack()      *)
(* writes at, the shaders by the colour of one splat, and the              *)
(* InteractiveCamera by its listeners and the deltas they leave pending.   *)
(***************************************************************************)
EXTENDS Integers, Sequences, FiniteSets, TLC

\* ------------------------------------------------------------------ bounds
\* largest element count offered to the BitonicSorter constructor
MaxN == 4
\* keys of the test harness are drawn from 0..MaxKey
MaxKey == 2
\* number of invocations of one dispatch (2048 in the scalar sorter and in
\* the depth sorter, 8192 in the vec4 sorter), scaled down
numThreads == 3
\* the host submits new work when at most this many commands are still queued
MaxBacklog == 0
\* most argsort calls of one behaviour of the test harness
MaxCalls == 2
\* largest number of Gaussians of a scene
MaxPoints == 4
\* most frames drawn in one behaviour
MaxFrames == 1
\* most Renderer objects constructed in one behaviour of the page
MaxRenderers == 3
\* most files chosen through the file input in one behaviour
MaxLoads == 2
\* most times the camera is moved in one behaviour
MaxCameraRev == 1
\* number of Gaussians of every scene loaded in the model of the page
ScenePoints == 2
\* largest number of f_rest_* properties of a PLY header
MaxRest == 75
\* largest vertex count of a PLY header
MaxVertices == 1
\* largest element count of a stage run with both kernels side by side
BenchN == 8
\* most invocations of a dispatch of such a run
BenchThreads == 2
\* the keys of such a run are drawn from 0..BenchKey
BenchKey == 1
\* most members of a Struct layout under test
MaxMembers == 3
\* most members of a Struct nested in such a layout
MaxInner == 2
\* most elements of a StaticArray of such a layout
MaxElements == 2
\* most values packed one after the other into one buffer
MaxRecords == 2
\* most coefficient triples of a shaded scene that are not zero
MaxLit == 2
\* number of points of a shaded scene
MaxShaded == 2
\* largest number of input events handled by the InteractiveCamera
MaxEvents == 3

VARIABLES
    policy,          \* what the device does with an out-of-bounds access
    kernel,          \* which bitonicSortShader the sorter was built with
    ctorArg,         \* nElements handed to the last constructor call, -1 before
    ctorThrew,       \* whether that constructor call threw
    nElements,       \* BitonicSorter.nElements (0 while no sorter exists)
    valuesBuffer,    \* BitonicSorter.valuesBuffer
    indicesBuffer,   \* BitonicSorter.indicesBuffer
    initialIndexBuffer, \* BitonicSorter.initialIndexBuffer
    bindGroups,      \* BitonicSorter.bindGroups: the (j,k) uniforms in order
    lastSize,        \* values.size (bytes) of the last argsort call, -1 before
    sortedKeys,      \* the keys copied in by the argsort under execution
    argsortThrew,    \* whether the last argsort call threw
    calls,           \* number of argsort calls made so far
    completed,       \* number of argsorts the device has finished
    queue,           \* device queue: commands submitted and not yet executed
    lanesDone,       \* lanes of the dispatch at the head of the queue that ran
    inFlight,        \* private state of the lanes that are inside their loop
    pc,              \* what the device did last
    nUnpadded,       \* DepthSorter.nUnpadded
    nPadded,         \* DepthSorter.nPadded
    positionsBuffer, \* DepthSorter.positionsBuffer
    projMatrixBuffer, \* DepthSorter.projMatrixBuffer
    depthBuffer,     \* DepthSorter.depthBuffer
    indexBuffer,     \* DepthSorter.indexBuffer
    expandCount,     \* how often each rank was expanded in the current pass
    drawIndexBuffer, \* Renderer.drawIndexBuffer
    drawnOrder,      \* point of each vertex of the last draw call, in order
    frames,          \* number of draw() calls made so far
    target,          \* the colour attachment: one pixel, colour and alpha
    fragments,       \* the fragments covering that pixel
    blended,         \* the fragments blended since the clear, in order
    currentRenderer, \* index.ts currentRenderer: a renderer id, 0 while undefined
    resources,       \* per renderer: its device resources not yet destroyed
    destroyCallback, \* per renderer: the load whose promise it resolves, -1 if null
    scheduled,       \* per renderer: the animation-frame callbacks pending, in order
    ticked,          \* per renderer: whether animate has run
    depthSortMatrix, \* per renderer: Renderer.depthSortMatrix
    dirty,           \* InteractiveCamera.dirty
    cameraRev,       \* revision of the view matrix of InteractiveCamera.camera
    deltas,          \* whether any of InteractiveCamera.dTX .. dRZ is not zero
    devQueue,        \* per renderer: commands its device has not yet executed
    mem,             \* per renderer: revision each buffer was derived from
    tick,            \* the last animate call: what it found and what it did, in order
    loadPc,          \* per scene load: where it stands
    victim,          \* per scene load: currentRenderer when onFileLoad began
    plyHeader,       \* the header of the PLY file handed to PackedGaussians
    gaussians,       \* the PackedGaussians object under construction
    bench,           \* the two sort kernels run side by side on one stage
    packing,         \* a packing.ts layout and the pack() calls made on it
    shader,          \* the program built by getShaderCode and one splat shaded by it
    interactive,     \* the InteractiveCamera with its six deltas
    viewer           \* a Renderer drawing from it: callback pending, last frame

sorterVars == <<kernel, ctorArg, ctorThrew, nElements, initialIndexBuffer, bindGroups>>
callVars == <<lastSize, argsortThrew, calls>>
depthSorterVars == <<nUnpadded, nPadded, positionsBuffer>>
frameVars == <<projMatrixBuffer, depthBuffer, indexBuffer, expandCount,
               drawIndexBuffer, drawnOrder>>
blendVars == <<target, fragments, blended>>
rendererVars == <<resources, destroyCallback, scheduled, ticked, depthSortMatrix,
                  devQueue, mem>>
pageVars == <<currentRenderer, dirty, cameraRev, deltas, tick, loadPc, victim>>
plyVars == <<plyHeader, gaussians>>
wgslVars == <<packing, shader>>
inputVars == <<interactive, viewer>>
hostVars == <<rendererVars, pageVars, plyVars, wgslVars, inputVars>>

laneVars == <<lanesDone, inFlight>>
vars == <<policy, sorterVars, callVars, valuesBuffer, indicesBuffer, sortedKeys,
          completed, queue, laneVars, pc, depthSorterVars, frameVars, frames,
          blendVars, hostVars, bench>>

\* ------------------------------------------------------- integer helpers
RECURSIVE BitXor(_, _)
\* WGSL/JS a ^ b on non-negative integers
BitXor(a, b) ==
    IF a = 0 THEN b
    ELSE IF b = 0 THEN a
    ELSE (((a % 2) + (b % 2)) % 2) + 2 * BitXor(a \div 2, b \div 2)

RECURSIVE BitAnd(_, _)
\* WGSL a & b on non-negative integers
BitAnd(a, b) ==
    IF a = 0 \/ b = 0 THEN 0
    ELSE ((a % 2) * (b % 2)) + 2 * BitAnd(a \div 2, b \div 2)

\* Math.ceil(a / b) for a >= 0, b > 0
CeilDiv(a, b) == (a + b - 1) \div b

\* a buffer of n zeros (WebGPU buffers are created zero-filled)
Zeros(n) == [x \in 1..n |-> 0]

\* -------------------------------------------------- out-of-bounds access
\* WGSL: an out-of-bounds read yields an in-bounds element (index clamping)
\* or zero; an out-of-bounds write goes to an in-bounds element or is dropped
Policies == {"clamp", "discard"}

Load(buf, i) ==
    IF i < Len(buf) THEN buf[i + 1]
    ELSE IF policy = "clamp" THEN buf[Len(buf)] ELSE 0

Store(buf, i, v) ==
    IF i < Len(buf) THEN [buf EXCEPT ![i + 1] = v]
    ELSE IF policy = "clamp" THEN [buf EXCEPT ![Len(buf)] = v] ELSE buf

\* array<vec4<..>> view of a buffer: block b holds elements 4b .. 4b+3
NumBlocks(buf) == Len(buf) \div 4

LoadBlock(buf, b) ==
    LET c == IF b < NumBlocks(buf) THEN b ELSE NumBlocks(buf) - 1
    IN  IF b >= NumBlocks(buf) /\ policy # "clamp" THEN <<0, 0, 0, 0>>
        ELSE <<buf[4 * c + 1], buf[4 * c + 2], buf[4 * c + 3], buf[4 * c + 4]>>

StoreBlock(buf, b, v) ==
    LET c == IF b < NumBlocks(buf) THEN b ELSE NumBlocks(buf) - 1
    IN  IF b >= NumBlocks(buf) /\ policy # "clamp" THEN buf
        ELSE [x \in 1..Len(buf) |->
                 IF x > 4 * c /\ x <= 4 * c + 4 THEN v[x - 4 * c] ELSE buf[x]]

\* ---------------------------------------------------- BitonicSorter setup
RECURSIVE Log2IsWhole(_)
\* Math.log2(n) % 1 == 0: log2 of 0 is -Infinity and its remainder NaN
Log2IsWhole(n) ==
    IF n <= 0 THEN FALSE
    ELSE IF n = 1 THEN TRUE
    ELSE IF n % 2 = 1 THEN FALSE
    ELSE Log2IsWhole(n \div 2)

RECURSIVE UniformsJRising(_, _)
\* the inner loop of createUniforms with the distances in rising order
UniformsJRising(j, k) ==
    IF j > 0 THEN UniformsJRising(j \div 2, k) \o <<(<<j, k>>)>> ELSE <<>>

RECURSIVE UniformsJ(_, _)
\* inner loop of createUniforms: j = k >> 1; j > 0; j = j >> 1
UniformsJ(j, k) ==
    IF j > 0 THEN <<(<<j, k>>)>> \o UniformsJ(j \div 2, k) ELSE <<>>

RECURSIVE UniformsK(_, _)
\* outer loop of createUniforms: k = 2; k <= nElements; k <<= 1
UniformsK(k, n) ==
    IF k <= n THEN UniformsJ(k \div 2, k) \o UniformsK(2 * k, n) ELSE <<>>

createUniforms(n) == UniformsK(2, n)

\* itemsPerThread = Math.ceil(nElements / numThreads)
itemsPerThread(n) == CeilDiv(n, numThreads)

\* ------------------------------------------------------- scalar kernel
\* the loop body with both comparisons turned around
ScalarItemDescending(m, i, j, k) ==
    LET ixj == BitXor(i, j)
        vi == Load(m.data, i)
        vx == Load(m.data, ixj)
        swap_pos == BitAnd(i, k) = 0 /\ vi < vx
        swap_neg == BitAnd(i, k) # 0 /\ vi > vx
        d1 == Store(m.data, i, Load(m.data, ixj))
        d2 == Store(d1, ixj, vi)
        x1 == Store(m.indices, i, Load(m.indices, ixj))
        x2 == Store(x1, ixj, Load(m.indices, i))
    IN  IF ixj <= i THEN m
        ELSE IF swap_pos \/ swap_neg THEN [data |-> d2, indices |-> x2]
        ELSE m

\* the loop body with comparisons that also hold for equal keys
ScalarItemSwapsEqual(m, i, j, k) ==
    LET ixj == BitXor(i, j)
        vi == Load(m.data, i)
        vx == Load(m.data, ixj)
        swap_pos == BitAnd(i, k) = 0 /\ vi >= vx
        swap_neg == BitAnd(i, k) # 0 /\ vi <= vx
        d1 == Store(m.data, i, Load(m.data, ixj))
        d2 == Store(d1, ixj, vi)
        x1 == Store(m.indices, i, Load(m.indices, ixj))
        x2 == Store(x1, ixj, Load(m.indices, i))
    IN  IF ixj <= i THEN m
        ELSE IF swap_pos \/ swap_neg THEN [data |-> d2, indices |-> x2]
        ELSE m

\* one iteration of the loop body of the scalar bitonicSortShader for index i
ScalarItem(m, i, j, k) ==
    LET ixj == BitXor(i, j)
        vi == Load(m.data, i)
        vx == Load(m.data, ixj)
        swap_pos == BitAnd(i, k) = 0 /\ vi > vx
        swap_neg == BitAnd(i, k) # 0 /\ vi < vx
        d1 == Store(m.data, i, Load(m.data, ixj))
        d2 == Store(d1, ixj, vi)
        x1 == Store(m.indices, i, Load(m.indices, ixj))
        x2 == Store(x1, ixj, Load(m.indices, i))
    IN  IF ixj <= i THEN m
        ELSE IF swap_pos \/ swap_neg THEN [data |-> d2, indices |-> x2]
        ELSE m

\* the private state of an invocation that has not entered its loop
Fresh == [i |-> -1, ph |-> 0, reg |-> 0]

\* whether another invocation of the dispatch may access an element that
\* iteration i accesses: iterations pair up disjoint elements (i, i ^ j), and
\* only the iterations past the end of the buffer, present when the dispatch
\* covers more than n elements, reach another one's element: the last one,
\* when the device clamps their indices
Contended(n, i, j) ==
    /\ policy = "clamp"
    /\ numThreads * itemsPerThread(n) > n
    /\ BitXor(i, j) > i
    /\ BitXor(i, j) >= n - 1

RECURSIVE Advance(_, _, _, _, _)
\* the iterations from i on that no other invocation interferes with, run as
\* one step; stops at the first contended iteration or at the end of the loop
Advance(m, i, hi, j, k) ==
    IF i < hi /\ ~Contended(Len(m.data), i, j)
    THEN Advance(ScalarItem(m, i, j, k), i + 1, hi, j, k)
    ELSE [m |-> m, st |-> [i |-> i, ph |-> 0, reg |-> 0]]

\* one step of invocation g of the scalar kernel in private state st. A
\* contended iteration i takes four steps: (0) load data[i]; (1) load
\* data[ixj], compare, and exchange the two values; (2) load indices[i] into
\* tempI; (3) store indices[ixj] to indices[i] and tempI to indices[ixj]
ScalarStep(m, st, g, j, k) ==
    LET hi == (g + 1) * itemsPerThread(Len(m.data))
        i == st.i
        ixj == BitXor(i, j)
        vx == Load(m.data, ixj)
        swap_pos == BitAnd(i, k) = 0 /\ st.reg > vx
        swap_neg == BitAnd(i, k) # 0 /\ st.reg < vx
        d1 == Store(m.data, i, Load(m.data, ixj))
        d2 == Store(d1, ixj, Load(m.data, i))
        x1 == Store(m.indices, i, Load(m.indices, ixj))
        x2 == Store(x1, ixj, st.reg)
    IN  IF i = -1 THEN Advance(m, g * itemsPerThread(Len(m.data)), hi, j, k)
        ELSE IF st.ph = 0
        THEN [m |-> m, st |-> [st EXCEPT !.ph = 1, !.reg = Load(m.data, i)]]
        ELSE IF st.ph = 1
        THEN IF swap_pos \/ swap_neg
             THEN [m |-> [m EXCEPT !.data = d2],
                   st |-> [st EXCEPT !.ph = 2, !.reg = 0]]
             ELSE Advance(m, i + 1, hi, j, k)
        ELSE IF st.ph = 2
        THEN [m |-> m, st |-> [st EXCEPT !.ph = 3, !.reg = Load(m.indices, i)]]
        ELSE Advance([m EXCEPT !.indices = x2], i + 1, hi, j, k)

\* --------------------------------------------------------- vec4 kernel
\* the private variables of an invocation of the vec4 kernel at the start of
\* the block at n, beside the storage buffers: s.last is
\* lastIxjLoadedMajorIdx
Vec4Start(m, n) ==
    [data |-> m.data, indices |-> m.indices,
     datan |-> LoadBlock(m.data, n \div 4),
     indicesn |-> LoadBlock(m.indices, n \div 4),
     swap |-> FALSE,
     dataixj |-> <<0, 0, 0, 0>>, indicesixj |-> <<0, 0, 0, 0>>,
     last |-> 0]

\* if (lastIxjLoadedMajorIdx != 0) { data[..] = dataixj; indices[..] = .. }
Vec4Flush(s) ==
    IF s.last # 0
    THEN [s EXCEPT !.data = StoreBlock(s.data, s.last, s.dataixj),
                   !.indices = StoreBlock(s.indices, s.last, s.indicesixj)]
    ELSE s

\* dataixj = data[ixjMajor]; indicesixj = indices[ixjMajor]; last.. = ixjMajor
Vec4Reload(s, ixjMajor) ==
    [s EXCEPT !.dataixj = LoadBlock(s.data, ixjMajor),
              !.indicesixj = LoadBlock(s.indices, ixjMajor),
              !.last = ixjMajor]

\* the partner block: the invocation's own block, or the block ixjMajor of
\* the buffer, fetched after the block held before it is written back
Vec4Fetch(s, ixjMajor, writeToWorkgroupBlock) ==
    IF writeToWorkgroupBlock
    THEN [s EXCEPT !.dataixj = s.datan, !.indicesixj = s.indicesn, !.last = 0]
    ELSE IF s.last # ixjMajor THEN Vec4Reload(Vec4Flush(s), ixjMajor)
    ELSE s

\* when the partner is in the invocation's own block the exchanged value is
\* written there too
Vec4Mirror(s, ixjMinor, writeToWorkgroupBlock, datai, indicesi) ==
    IF writeToWorkgroupBlock
    THEN [s EXCEPT !.datan[ixjMinor + 1] = datai,
                   !.indicesn[ixjMinor + 1] = indicesi]
    ELSE s

\* the exchange of component l of the own block with component ixjMinor of
\* the partner block
Vec4Swap(s, l, ixjMinor, writeToWorkgroupBlock, datai, indicesi) ==
    Vec4Mirror([s EXCEPT !.swap = TRUE,
                         !.datan[l + 1] = s.dataixj[ixjMinor + 1],
                         !.dataixj[ixjMinor + 1] = datai,
                         !.indicesn[l + 1] = s.indicesixj[ixjMinor + 1],
                         !.indicesixj[ixjMinor + 1] = indicesi],
               ixjMinor, writeToWorkgroupBlock, datai, indicesi)

\* the comparison of element i with its partner, and the exchange if they
\* are out of order
Vec4Compare(s, i, l, k, ixjMinor, writeToWorkgroupBlock) ==
    LET swap_pos == BitAnd(i, k) = 0 /\ s.datan[l + 1] > s.dataixj[ixjMinor + 1]
        swap_neg == BitAnd(i, k) # 0 /\ s.datan[l + 1] < s.dataixj[ixjMinor + 1]
    IN  IF swap_pos \/ swap_neg
        THEN Vec4Swap(s, l, ixjMinor, writeToWorkgroupBlock,
                      s.datan[l + 1], s.indicesn[l + 1])
        ELSE s

\* body of the inner loop (l = 0..3) of the vec4 bitonicSortShader; s holds
\* the storage buffers and the private variables of the invocation
Vec4Item(s, n, l, j, k) ==
    IF BitXor(n + l, j) <= n + l THEN s
    ELSE Vec4Compare(Vec4Fetch(s, BitXor(n + l, j) \div 4,
                               BitXor(n + l, j) \div 4 = n \div 4),
                     n + l, l, k, BitXor(n + l, j) % 4,
                     BitXor(n + l, j) \div 4 = n \div 4)

RECURSIVE Vec4Inner(_, _, _, _, _)
\* for (l = 0; l < 4; l++) of the vec4 kernel
Vec4Inner(s, n, l, j, k) ==
    IF l < 4 THEN Vec4Inner(Vec4Item(s, n, l, j, k), n, l + 1, j, k) ELSE s

\* if (swap) { data[n / 4] = datan; indices[n / 4] = indicesn; }
Vec4WriteBack(s, n) ==
    IF s.swap
    THEN [s EXCEPT !.data = StoreBlock(s.data, n \div 4, s.datan),
                   !.indices = StoreBlock(s.indices, n \div 4, s.indicesn)]
    ELSE s

\* the storage buffers an invocation leaves
Vec4Memory(s) == [data |-> s.data, indices |-> s.indices]

\* one iteration of the outer loop of the vec4 kernel for the block at n
Vec4Block(m, n, j, k) ==
    Vec4Memory(Vec4Flush(Vec4WriteBack(Vec4Inner(Vec4Start(m, n), n, 0, j, k), n)))

RECURSIVE Vec4Loop(_, _, _, _, _)
\* for (n = lo; n < max && (max ^ j) > max; n += 4) of the vec4 kernel
Vec4Loop(m, n, max, j, k) ==
    IF n < max /\ BitXor(max, j) > max
    THEN Vec4Loop(Vec4Block(m, n, j, k), n + 4, max, j, k)
    ELSE m

\* the blocks of the storage buffers an invocation accessed, and the values
\* of n at which it loaded its own block
NoAccess == [reads |-> {}, writes |-> {}, starts |-> {}]

RECURSIVE Vec4Reads(_, _, _, _, _)
\* the blocks the iterations l.. of the inner loop load: block ixjMajor
\* whenever it is not the own block and not the block held
Vec4Reads(s, n, l, j, k) ==
    IF l >= 4 THEN {}
    ELSE (IF /\ BitXor(n + l, j) > n + l
             /\ BitXor(n + l, j) \div 4 # n \div 4
             /\ s.last # BitXor(n + l, j) \div 4
          THEN {BitXor(n + l, j) \div 4} ELSE {})
         \cup Vec4Reads(Vec4Item(s, n, l, j, k), n, l + 1, j, k)

RECURSIVE Vec4Writes(_, _, _, _, _)
\* the blocks the iterations l.. of the inner loop and the end of the outer
\* loop body store: the block held when another one replaces it, the own
\* block if swap is set, and the block held at the end
Vec4Writes(s, n, l, j, k) ==
    IF l >= 4
    THEN (IF s.swap THEN {n \div 4} ELSE {}) \cup (IF s.last # 0 THEN {s.last} ELSE {})
    ELSE (IF /\ BitXor(n + l, j) > n + l
             /\ BitXor(n + l, j) \div 4 # n \div 4
             /\ s.last # BitXor(n + l, j) \div 4
             /\ s.last # 0
          THEN {s.last} ELSE {})
         \cup Vec4Writes(Vec4Item(s, n, l, j, k), n, l + 1, j, k)

RECURSIVE Vec4LoopAccess(_, _, _, _, _)
\* the accesses of the outer loop of the vec4 kernel from block n on
Vec4LoopAccess(m, n, max, j, k) ==
    IF n < max /\ BitXor(max, j) > max
    THEN [reads |-> {n \div 4} \cup Vec4Reads(Vec4Start(m, n), n, 0, j, k)
                      \cup Vec4LoopAccess(Vec4Block(m, n, j, k), n + 4, max, j, k).reads,
          writes |-> Vec4Writes(Vec4Start(m, n), n, 0, j, k)
                      \cup Vec4LoopAccess(Vec4Block(m, n, j, k), n + 4, max, j, k).writes,
          starts |-> {n}
                      \cup Vec4LoopAccess(Vec4Block(m, n, j, k), n + 4, max, j, k).starts]
    ELSE NoAccess

\* invocation g of the vec4 kernel on memory m = [data, indices]
Vec4Lane(m, g, j, k) ==
    LET ipt == itemsPerThread(Len(m.data))
    IN  Vec4Loop(m, g * ipt, (g + 1) * ipt, j, k)

\* one step of invocation g of the kernel the sorter was built with; the
\* invocation has ended when st.i reaches the end of its range
SortStep(kern, m, st, g, j, k) ==
    IF kern = "vec4"
    THEN [m |-> Vec4Lane(m, g, j, k),
          st |-> [i |-> (g + 1) * itemsPerThread(Len(m.data)), ph |-> 0, reg |-> 0]]
    ELSE ScalarStep(m, st, g, j, k)

\* --------------------------------------------------------- DepthSorter
RECURSIVE CeilLog2(_)
\* Math.ceil(Math.log2(x)) for x >= 1
CeilLog2(x) == IF x <= 1 THEN 0 ELSE 1 + CeilLog2((x + 1) \div 2)

\* the least power of two strictly above x
nextPowerOfTwoAbove(x) == 2 ^ CeilLog2(x + 1)

\* Math.pow(2, Math.ceil(Math.log2(x)))
nextPowerOfTwo(x) == 2 ^ CeilLog2(x)

\* the key the depth shader writes into the padding, 1e20f in the source:
\* scaled to the integers of the model, above every depth a scene produces
padDepth == 1000000

\* mat4x4.pack of a number[][]: the inner arrays one after the other
PackMatrix(m) == m[1] \o m[2] \o m[3] \o m[4]

\* component row (0-based) of projMatrix * vec4(pos, 1.0); the buffer holds the
\* matrix column by column
MatVec(buf, pos, row) ==
    buf[row + 1] * pos[1] + buf[4 + row + 1] * pos[2]
        + buf[8 + row + 1] * pos[3] + buf[12 + row + 1] * 1

\* body of the loop of computeDepthShader for index i
DepthItem(depths, i) ==
    IF i >= nUnpadded THEN Store(depths, i, padDepth)
    ELSE Store(depths, i, MatVec(projMatrixBuffer, positionsBuffer[i + 1], 2))

RECURSIVE DepthLoop(_, _, _)
\* for (i = lo; i < hi; i++) of computeDepthShader
DepthLoop(depths, i, hi) ==
    IF i < hi THEN DepthLoop(DepthItem(depths, i), i + 1, hi) ELSE depths

\* paddedPerThread = Math.ceil(nPadded / numThreads)
paddedPerThread == CeilDiv(nPadded, numThreads)

\* invocation g of computeDepthShader
DepthLane(depths, g) ==
    DepthLoop(depths, g * paddedPerThread, (g + 1) * paddedPerThread)

RECURSIVE CopyVertices(_, _, _, _)
\* for (vertex = 0; vertex < 6; vertex++) indexBuffer[i*6+vertex] = index*6+vertex
CopyVertices(out, i, index, vertex) ==
    IF vertex < 6
    THEN CopyVertices(Store(out, i * 6 + vertex, index * 6 + vertex), i, index,
                      vertex + 1)
    ELSE out

\* body of the loop of copyToIndexBufferShader for rank i (after the guard)
CopyItem(m, i) ==
    [out |-> CopyVertices(m.out, i, Load(indicesBuffer, i), 0),
     count |-> [m.count EXCEPT ![i + 1] = @ + 1]]

RECURSIVE CopyLoopNoBreak(_, _, _)
\* the copy loop without its break at numQuadsUnpadded
CopyLoopNoBreak(m, i, hi) ==
    IF i < hi THEN CopyLoopNoBreak(CopyItem(m, i), i + 1, hi) ELSE m

RECURSIVE CopyLoop(_, _, _)
\* for (i = lo; i < hi; i++) { if (i >= numQuadsUnpadded) break; ... }
CopyLoop(m, i, hi) ==
    IF i < hi /\ ~(i >= nUnpadded) THEN CopyLoop(CopyItem(m, i), i + 1, hi) ELSE m

\* unpaddedPerThread = Math.ceil(nUnpadded / numThreads)
unpaddedPerThread == CeilDiv(nUnpadded, numThreads)

\* invocation g of copyToIndexBufferShader
CopyLane(m, g) ==
    CopyLoop(m, g * unpaddedPerThread, (g + 1) * unpaddedPerThread)

\* ------------------------------------------------------ device commands
Cmd(op, src, j, k, fin) == [op |-> op, src |-> src, j |-> j, k |-> k, fin |-> fin]

\* a key buffer handed to argsort: the buffer the test harness created and
\* filled, or the depth buffer of the DepthSorter (read when the copy executes)
TestBuffer(v) == [name |-> "valuesBuffer", size |-> 4 * Len(v), content |-> v]
DepthBufferHandle == [name |-> "depthBuffer", size |-> 4 * nPadded, content |-> <<>>]
NoBuffer == [name |-> "", size |-> 0, content |-> <<>>]

\* the compute passes argsort encodes, one per bind group
SortPasses(groups) ==
    [p \in 1..Len(groups) |->
        Cmd("sortPass", NoBuffer, groups[p][1], groups[p][2], p = Len(groups))]

\* the command buffer argsort encodes and submits
ArgsortCommands(values, groups) ==
    <<Cmd("clearBuffer", NoBuffer, 0, 0, FALSE),
      Cmd("copyValues", values, 0, 0, FALSE),
      Cmd("copyInitialIndices", NoBuffer, 0, 0, groups = <<>>)>>
    \o SortPasses(groups)

Lanes == 0..(numThreads - 1)

\* ------------------------------------------------------------- the engine
NoSorter ==
    /\ kernel = "none"
    /\ ctorArg = -1
    /\ ctorThrew = FALSE
    /\ nElements = 0
    /\ valuesBuffer = <<>>
    /\ indicesBuffer = <<>>
    /\ initialIndexBuffer = <<>>
    /\ bindGroups = <<>>

NoCalls ==
    /\ lastSize = -1
    /\ sortedKeys = <<>>
    /\ argsortThrew = FALSE
    /\ calls = 0
    /\ completed = 0

NoDepthSorter ==
    /\ nUnpadded = 0
    /\ nPadded = 0
    /\ positionsBuffer = <<>>
    /\ projMatrixBuffer = <<>>
    /\ depthBuffer = <<>>
    /\ indexBuffer = <<>>
    /\ expandCount = <<>>
    /\ drawIndexBuffer = <<>>
    /\ drawnOrder = <<>>
    /\ frames = 0

NoTarget ==
    /\ target = <<>>
    /\ fragments = <<>>
    /\ blended = <<>>

Renderers == 1..MaxRenderers
\* load 0 is loadDefaultPly, the others are the files chosen by the user
Loads == 0..MaxLoads

\* no buffer of a renderer holds anything derived from a camera; drawn is the
\* pair (revision of the uniforms, revision of the draw order) of each frame
NoMem ==
    [uniformBuffer |-> -1, projMatrixBuffer |-> -1, depthBuffer |-> -1,
     valuesBuffer |-> -1, indicesBuffer |-> -1, indexBuffer |-> -1,
     drawIndexBuffer |-> -1, drawn |-> <<>>]

NoTick == [renderer |-> 0, forceDraw |-> FALSE, dirty |-> FALSE, deltas |-> FALSE,
           pending |-> FALSE, log |-> <<>>, uniforms |-> <<>>]

\* no matrix has been assigned
NoMatrix == [matrix |-> "", rev |-> -1]

\* the page before its script runs
NoPage ==
    /\ currentRenderer = 0
    /\ resources = [r \in Renderers |-> {}]
    /\ destroyCallback = [r \in Renderers |-> -1]
    /\ scheduled = [r \in Renderers |-> <<>>]
    /\ ticked = [r \in Renderers |-> FALSE]
    /\ depthSortMatrix = [r \in Renderers |-> NoMatrix]
    /\ dirty = TRUE
    /\ cameraRev = 0
    /\ deltas = FALSE
    /\ devQueue = [r \in Renderers |-> <<>>]
    /\ mem = [r \in Renderers |-> NoMem]
    /\ tick = NoTick
    /\ loadPc = [l \in Loads |-> "idle"]
    /\ victim = [l \in Loads |-> 0]

NoPly ==
    /\ plyHeader = [nRestCoeffs |-> 0, vertexCount |-> 0]
    /\ gaussians = <<>>

\* no side-by-side run of the kernels is set up
NoBench == <<>>
NoPacking == <<>>
NoShader == <<>>

\* no InteractiveCamera and no Renderer drawing from it are under study
NoInput == interactive = <<>> /\ viewer = <<>>

\* the test harness of the sort engine before it constructs a sorter
Init ==
    /\ policy \in Policies
    /\ NoSorter
    /\ NoCalls
    /\ queue = <<>>
    /\ lanesDone = {}
    /\ inFlight = [g \in Lanes |-> Fresh]
    /\ pc = "idle"
    /\ bench = NoBench
    /\ packing = NoPacking
    /\ NoInput
    /\ shader = NoShader
    /\ NoDepthSorter
    /\ NoTarget
    /\ NoPage
    /\ NoPly

\* a size check that lets 0 through
RejectsSizeZeroOk(n) == n > 0 /\ ~Log2IsWhole(n)

\* if (Math.log2(nElements) % 1 != 0) of the BitonicSorter constructor
RejectsSize(n) == ~Log2IsWhole(n)

\* new BitonicSorter(context, n) with the kernel of source version kern
BitonicSorterNew(n, kern) ==
    /\ kernel = "none"
    /\ kern = "vec4" => n # 2
    /\ ctorArg' = n
    /\ IF RejectsSize(n)
       THEN /\ ctorThrew' = TRUE
            /\ UNCHANGED <<kernel, nElements, valuesBuffer, indicesBuffer,
                           initialIndexBuffer, bindGroups>>
       ELSE /\ ctorThrew' = FALSE
            /\ kernel' = kern
            /\ nElements' = n
            /\ valuesBuffer' = Zeros(n)
            /\ indicesBuffer' = Zeros(n)
            /\ initialIndexBuffer' = [x \in 1..n |-> x - 1]
            /\ bindGroups' = createUniforms(n)
    /\ UNCHANGED <<policy, callVars, sortedKeys, completed, queue, laneVars, pc,
                   depthSorterVars, frameVars, frames, blendVars, hostVars, bench>>

\* argsort encoding and submitting its commands before it checks the size
ArgsortBodySubmitsFirst(values, q) ==
    [threw |-> values.size # 4 * Len(valuesBuffer),
     queue |-> q \o ArgsortCommands(values, bindGroups)]

\* the body of BitonicSorter.argsort(values) on the queue q: whether it
\* throws, and the queue it leaves
ArgsortBody(values, q) ==
    IF values.size # 4 * Len(valuesBuffer)
    THEN [threw |-> TRUE, queue |-> q]
    ELSE [threw |-> FALSE, queue |-> q \o ArgsortCommands(values, bindGroups)]

\* BitonicSorter.argsort(values), called by the test harness with a buffer it
\* created and filled with v (testBitonic)
argsort(v) ==
    /\ kernel # "none"
    /\ calls < MaxCalls
    /\ Len(queue) <= MaxBacklog
    /\ LET r == ArgsortBody(TestBuffer(v), queue)
       IN  /\ argsortThrew' = r.threw
           /\ queue' = r.queue
    /\ calls' = calls + 1
    /\ lastSize' = 4 * Len(v)
    /\ UNCHANGED <<policy, sorterVars, valuesBuffer, indicesBuffer, sortedKeys,
                   completed, laneVars, pc, depthSorterVars, frameVars, frames,
                   blendVars, hostVars, bench>>

\* the device executes commandEncoder.clearBuffer(valuesBuffer)
ExecClearBuffer ==
    /\ queue # <<>> /\ Head(queue).op = "clearBuffer"
    /\ valuesBuffer' = Zeros(Len(valuesBuffer))
    /\ pc' = "cleared"
    /\ queue' = Tail(queue)
    /\ UNCHANGED <<policy, sorterVars, callVars, indicesBuffer, sortedKeys,
                   completed, laneVars, depthSorterVars, frameVars, frames,
                   blendVars, hostVars, bench>>

\* a copy in the other direction: copyBufferToBuffer(valuesBuffer, 0, values,
\* 0, size)
ExecCopyValuesBack ==
    /\ queue # <<>> /\ Head(queue).op = "copyValues"
    /\ Head(queue).src.name = "depthBuffer"
    /\ depthBuffer' = valuesBuffer
    /\ sortedKeys' = valuesBuffer
    /\ pc' = "copied"
    /\ queue' = Tail(queue)
    /\ UNCHANGED <<policy, sorterVars, callVars, valuesBuffer, indicesBuffer, completed,
                   laneVars, depthSorterVars, projMatrixBuffer, indexBuffer,
                   expandCount, drawIndexBuffer, drawnOrder, frames, blendVars,
                   hostVars, bench>>

\* the device executes copyBufferToBuffer(values, 0, valuesBuffer, 0, size);
\* a buffer of the test harness is never written after its creation, so the
\* command carries its content; the depth buffer is read when the copy runs
ExecCopyValues ==
    /\ queue # <<>> /\ Head(queue).op = "copyValues"
    /\ LET v == IF Head(queue).src.name = "depthBuffer" THEN depthBuffer
                ELSE Head(queue).src.content
       IN  /\ valuesBuffer' = v
           /\ sortedKeys' = v
    /\ pc' = "copied"
    /\ queue' = Tail(queue)
    /\ UNCHANGED <<policy, sorterVars, callVars, indicesBuffer, completed,
                   laneVars, depthSorterVars, frameVars, frames, blendVars, hostVars, bench>>

\* the device executes copyBufferToBuffer(initialIndexBuffer, 0, indicesBuffer, ..)
ExecCopyInitialIndices ==
    /\ queue # <<>> /\ Head(queue).op = "copyInitialIndices"
    /\ indicesBuffer' = initialIndexBuffer
    /\ pc' = IF Head(queue).fin THEN "sorted" ELSE "reset"
    /\ completed' = IF Head(queue).fin THEN completed + 1 ELSE completed
    /\ queue' = Tail(queue)
    /\ UNCHANGED <<policy, sorterVars, callVars, valuesBuffer, sortedKeys,
                   laneVars, depthSorterVars, frameVars, frames, blendVars, hostVars, bench>>

\* invocation g of the compute pass at the head of the queue takes a step;
\* the pass ends, and the next command may start, when all invocations ended
RunSortLane(g) ==
    /\ queue # <<>> /\ Head(queue).op = "sortPass"
    /\ g \notin lanesDone
    /\ \E r \in {SortStep(kernel, [data |-> valuesBuffer, indices |-> indicesBuffer],
                         inFlight[g], g, Head(queue).j, Head(queue).k)} :
       LET ended == r.st.i >= (g + 1) * itemsPerThread(nElements)
           all == ended /\ (lanesDone \cup {g} = Lanes)
       IN  /\ valuesBuffer' = r.m.data
           /\ indicesBuffer' = r.m.indices
           /\ inFlight' = [inFlight EXCEPT ![g] = IF ended THEN Fresh ELSE r.st]
           /\ lanesDone' = IF all THEN {}
                           ELSE IF ended THEN lanesDone \cup {g} ELSE lanesDone
           /\ queue' = IF all THEN Tail(queue) ELSE queue
           /\ pc' = IF all /\ Head(queue).fin THEN "sorted"
                    ELSE IF all THEN "staged" ELSE "sorting"
           /\ completed' = IF all /\ Head(queue).fin THEN completed + 1
                           ELSE completed
    /\ UNCHANGED <<policy, sorterVars, callVars, sortedKeys, depthSorterVars,
                   frameVars, frames, blendVars, hostVars, bench>>

\* sizes and contents the test harness tries
CtorArgs == 0..MaxN
Kernels == {"scalar", "vec4"}
KeyBuffers == UNION {[1..len -> 0..MaxKey] : len \in 1..MaxN}

Next ==
    \/ \E n \in CtorArgs, kern \in Kernels : BitonicSorterNew(n, kern)
    \/ \E v \in KeyBuffers : argsort(v)
    \/ ExecClearBuffer
    \/ ExecCopyValues
    \/ ExecCopyInitialIndices
    \/ \E g \in Lanes : RunSortLane(g)

Spec == Init /\ [][Next]_vars

\* ------------------------------------------------------------ DepthSorter
\* the scenes tried: the positions of up to MaxPoints distinct Gaussians
Points == {<<0, 0, 1>>, <<1, 0, 2>>, <<0, 0, 3>>, <<2, 0, 5>>}
Scenes ==
    {scene \in UNION {[1..n -> Points] : n \in 1..MaxPoints} :
        \A a, b \in 1..Len(scene) : a # b => scene[a] # scene[b]}

\* the matrices handed to sort(), as mat4toArrayOfArrays returns them (the
\* inner arrays are the columns): depth = z, depth = 6 - z, depth = x
Matrices ==
    {<< <<1, 0, 0, 0>>, <<0, 1, 0, 0>>, <<0, 0, 1, 0>>, <<0, 0, 0, 1>> >>,
     << <<1, 0, 0, 0>>, <<0, 1, 0, 0>>, <<0, 0, -1, 0>>, <<0, 0, 6, 1>> >>,
     << <<0, 0, 1, 0>>, <<0, 1, 0, 0>>, <<-1, 0, 0, 0>>, <<0, 0, 0, 1>> >>}

\* new Renderer(...): the state after new DepthSorter(context, gaussians) and
\* the creation of drawIndexBuffer, for a scene of Len(scene) Gaussians
InitDepth ==
    /\ policy \in Policies
    /\ \E scene \in Scenes :
        /\ positionsBuffer = scene
        /\ nUnpadded = Len(scene)
        /\ nPadded = nextPowerOfTwo(Len(scene))
        /\ depthBuffer = Zeros(nextPowerOfTwo(Len(scene)))
        /\ indexBuffer = Zeros(6 * Len(scene))
        /\ drawIndexBuffer = Zeros(6 * Len(scene))
        /\ kernel = "scalar"
        /\ ctorArg = nextPowerOfTwo(Len(scene))
        /\ ctorThrew = RejectsSize(nextPowerOfTwo(Len(scene)))
        /\ nElements = nextPowerOfTwo(Len(scene))
        /\ valuesBuffer = Zeros(nextPowerOfTwo(Len(scene)))
        /\ indicesBuffer = Zeros(nextPowerOfTwo(Len(scene)))
        /\ initialIndexBuffer = [x \in 1..nextPowerOfTwo(Len(scene)) |-> x - 1]
        /\ bindGroups = createUniforms(nextPowerOfTwo(Len(scene)))
    /\ projMatrixBuffer = Zeros(16)
    /\ expandCount = <<>>
    /\ drawnOrder = <<>>
    /\ frames = 0
    /\ NoCalls
    /\ queue = <<>>
    /\ lanesDone = {}
    /\ inFlight = [g \in Lanes |-> Fresh]
    /\ pc = "idle"
    /\ bench = NoBench
    /\ packing = NoPacking
    /\ NoInput
    /\ shader = NoShader
    /\ NoTarget
    /\ NoPage
    /\ NoPly

\* the body of DepthSorter.sort(projMatrix) on the queue q
SortBody(projMatrix, q) ==
    LET q1 == q \o <<[Cmd("writeBuffer", NoBuffer, 0, 0, FALSE)
                        EXCEPT !.src.content = PackMatrix(projMatrix)],
                     Cmd("computeDepth", NoBuffer, 0, 0, FALSE)>>
        r == ArgsortBody(DepthBufferHandle, q1)
    IN  [threw |-> r.threw,
         queue |-> IF r.threw THEN r.queue
                   ELSE r.queue \o <<Cmd("copyToIndexBuffer", NoBuffer, 0, 0, FALSE)>>]

\* draw submitting its own command buffer ahead of the sorter's work
DrawSubmitFirst(r) ==
    [threw |-> r.threw,
     queue |-> IF r.threw THEN r.queue
               ELSE <<Cmd("copyDrawIndices", NoBuffer, 0, 0, FALSE),
                      Cmd("renderPass", NoBuffer, 0, 0, FALSE)>> \o r.queue]

\* the rest of Renderer.draw once sort has returned or thrown (r): the
\* command buffer with the copy into drawIndexBuffer and the render pass
DrawSubmit(r) ==
    [threw |-> r.threw,
     queue |-> IF r.threw THEN r.queue
               ELSE r.queue \o <<Cmd("copyDrawIndices", NoBuffer, 0, 0, FALSE),
                                 Cmd("renderPass", NoBuffer, 0, 0, FALSE)>>]

\* the body of Renderer.draw with depthSortMatrix = m on the queue q
DrawBody(m, q) == DrawSubmit(SortBody(m, q))

\* Renderer.draw with depthSortMatrix = m: sort the draw order, then submit
\* the copy into drawIndexBuffer and the render pass
draw(m) ==
    /\ frames < MaxFrames
    /\ Len(queue) <= MaxBacklog
    /\ \E r \in {DrawBody(m, queue)} :
           /\ argsortThrew' = r.threw
           /\ queue' = r.queue
    /\ calls' = calls + 1
    /\ lastSize' = 4 * nPadded
    /\ frames' = frames + 1
    /\ UNCHANGED <<policy, sorterVars, valuesBuffer, indicesBuffer, sortedKeys,
                   completed, laneVars, pc, depthSorterVars, frameVars,
                   blendVars, hostVars, bench>>

\* the device executes queue.writeBuffer(projMatrixBuffer, ...)
ExecWriteBuffer ==
    /\ queue # <<>> /\ Head(queue).op = "writeBuffer"
    /\ projMatrixBuffer' = Head(queue).src.content
    /\ pc' = "uniforms"
    /\ queue' = Tail(queue)
    /\ UNCHANGED <<policy, sorterVars, callVars, valuesBuffer, indicesBuffer,
                   sortedKeys, completed, laneVars, depthSorterVars, depthBuffer,
                   indexBuffer, expandCount, drawIndexBuffer, drawnOrder, frames,
                   blendVars, hostVars, bench>>

\* invocation g of the depth pass runs
RunDepthLane(g) ==
    /\ queue # <<>> /\ Head(queue).op = "computeDepth"
    /\ g \notin lanesDone
    /\ LET all == (lanesDone \cup {g} = Lanes)
       IN  /\ depthBuffer' = DepthLane(depthBuffer, g)
           /\ lanesDone' = IF all THEN {} ELSE lanesDone \cup {g}
           /\ queue' = IF all THEN Tail(queue) ELSE queue
           /\ pc' = IF all THEN "keyed" ELSE "keying"
    /\ UNCHANGED <<policy, sorterVars, callVars, valuesBuffer, indicesBuffer,
                   sortedKeys, completed, inFlight, depthSorterVars, projMatrixBuffer,
                   indexBuffer, expandCount, drawIndexBuffer, drawnOrder, frames,
                   blendVars, hostVars, bench>>

\* invocation g of the copy-to-index-buffer pass runs
RunCopyLane(g) ==
    /\ queue # <<>> /\ Head(queue).op = "copyToIndexBuffer"
    /\ g \notin lanesDone
    /\ LET all == (lanesDone \cup {g} = Lanes)
           count == IF lanesDone = {} THEN Zeros(numThreads * unpaddedPerThread)
                    ELSE expandCount
           m == CopyLane([out |-> indexBuffer, count |-> count], g)
       IN  /\ indexBuffer' = m.out
           /\ expandCount' = m.count
           /\ lanesDone' = IF all THEN {} ELSE lanesDone \cup {g}
           /\ queue' = IF all THEN Tail(queue) ELSE queue
           /\ pc' = IF all THEN "expanded" ELSE "expanding"
    /\ UNCHANGED <<policy, sorterVars, callVars, valuesBuffer, indicesBuffer,
                   sortedKeys, completed, inFlight, depthSorterVars, projMatrixBuffer,
                   depthBuffer, drawIndexBuffer, drawnOrder, frames, blendVars, hostVars, bench>>

\* the device executes copyBufferToBuffer(indexBufferSrc, 0, drawIndexBuffer, 0,
\* 6 * 4 * nUnpadded)
ExecCopyDrawIndices ==
    /\ queue # <<>> /\ Head(queue).op = "copyDrawIndices"
    /\ drawIndexBuffer' = [x \in 1..Len(drawIndexBuffer) |->
                              IF x <= 6 * nUnpadded THEN indexBuffer[x]
                              ELSE drawIndexBuffer[x]]
    /\ pc' = "ready"
    /\ queue' = Tail(queue)
    /\ UNCHANGED <<policy, sorterVars, callVars, valuesBuffer, indicesBuffer,
                   sortedKeys, completed, laneVars, depthSorterVars,
                   projMatrixBuffer, depthBuffer, indexBuffer, expandCount,
                   drawnOrder, frames, blendVars, hostVars, bench>>

\* the device executes the render pass: drawIndexed(numGaussians * 6) feeds
\* the vertex ids of drawIndexBuffer, in order, to vs_points, which draws
\* point vertex_index / 6
ExecRenderPass ==
    /\ queue # <<>> /\ Head(queue).op = "renderPass"
    /\ drawnOrder' = [x \in 1..(nUnpadded * 6) |-> drawIndexBuffer[x] \div 6]
    /\ pc' = "drawn"
    /\ queue' = Tail(queue)
    /\ UNCHANGED <<policy, sorterVars, callVars, valuesBuffer, indicesBuffer,
                   sortedKeys, completed, laneVars, depthSorterVars,
                   projMatrixBuffer, depthBuffer, indexBuffer, expandCount,
                   drawIndexBuffer, frames, blendVars, hostVars, bench>>

NextDepth ==
    \/ \E m \in Matrices : draw(m)
    \/ ExecWriteBuffer
    \/ \E g \in Lanes : RunDepthLane(g)
    \/ ExecClearBuffer
    \/ ExecCopyValues
    \/ ExecCopyInitialIndices
    \/ \E g \in Lanes : RunSortLane(g)
    \/ \E g \in Lanes : RunCopyLane(g)
    \/ ExecCopyDrawIndices
    \/ ExecRenderPass

SpecDepth == InitDepth /\ [][NextDepth]_vars

\* ------------------------------------------------------------- blending
\* colour channels and alpha are held in units of 1 / Scale; with opacities in
\* hundredths the blend of two fragments is exact in these units
Scale == 100 * 100

\* the inputs of fs_main tried: a colour, an opacity in hundredths, and the
\* power of the Gaussian at the fragment (0 at the centre, where exp(power) = 1)
Colours == {<<1, 0, 0>>, <<0, 1, 0>>}
Opacities == {50, 80, 100}
Powers == {0, 1}
FragmentInputs ==
    [color : Colours, opacity : Opacities, power : Powers]

\* fs_main: no output when power > 0, else (color * alpha, alpha) with
\* alpha = min(0.99, opacity * exp(power)); the inputs tried have exp(power) = 1
fs_main(input) ==
    LET alpha == IF input.opacity < 99 THEN input.opacity ELSE 99
    IN  IF input.power > 0 THEN <<>>
        ELSE [c \in 1..4 |-> IF c = 4 THEN alpha * 100
                             ELSE input.color[c] * alpha * 100]

\* the classic "over" rule: src * 1 + dst * (1 - src.alpha)
BlendOver(src, dst) ==
    [c \in 1..4 |-> src[c] + (dst[c] * (Scale - src[4])) \div Scale]

\* the blend state of the draw pipeline, colour and alpha alike:
\* src * (1 - dst.alpha) + dst * 1
Blend(src, dst) ==
    [c \in 1..4 |-> (src[c] * (Scale - dst[4])) \div Scale + dst[c]]

\* a pixel that two fragments cover, listed in the order the draw call emits
\* them, before the render pass begins
InitBlend ==
    /\ policy \in Policies
    /\ NoSorter
    /\ NoCalls
    /\ queue = <<>>
    /\ lanesDone = {}
    /\ inFlight = [g \in Lanes |-> Fresh]
    /\ pc = "idle"
    /\ bench = NoBench
    /\ packing = NoPacking
    /\ NoInput
    /\ shader = NoShader
    /\ NoDepthSorter
    /\ target = <<>>
    /\ fragments \in [1..2 -> FragmentInputs]
    /\ blended = <<>>
    /\ NoPage
    /\ NoPly

\* beginRenderPass with loadOp "clear" and clearValue (0, 0, 0, 0)
ClearTarget ==
    /\ target = <<>>
    /\ target' = <<0, 0, 0, 0>>
    /\ pc' = "cleared"
    /\ UNCHANGED <<policy, sorterVars, callVars, valuesBuffer, indicesBuffer,
                   sortedKeys, completed, queue, laneVars, depthSorterVars,
                   frameVars, frames, fragments, blended, hostVars, bench>>

\* the next fragment of the pixel is shaded and blended into the target
BlendFragment ==
    /\ target # <<>>
    /\ Len(blended) < Len(fragments)
    /\ LET out == fs_main(fragments[Len(blended) + 1])
       IN  /\ target' = IF out = <<>> THEN target ELSE Blend(out, target)
           /\ blended' = Append(blended, out # <<>>)
    /\ pc' = "blending"
    /\ UNCHANGED <<policy, sorterVars, callVars, valuesBuffer, indicesBuffer,
                   sortedKeys, completed, queue, laneVars, depthSorterVars,
                   frameVars, frames, fragments, hostVars, bench>>

NextBlend ==
    \/ ClearTarget
    \/ BlendFragment

SpecBlend == InitBlend /\ [][NextBlend]_vars

\* ----------------------------------------------------------------- page
gpuVars == <<policy, sorterVars, callVars, valuesBuffer, indicesBuffer, sortedKeys,
             completed, queue, laneVars, pc, depthSorterVars, frameVars, frames,
             blendVars>>

\* the buffers BitonicSorter.destroy() destroys
BitonicSorterDestroy(res) ==
    res \ {"sorter.valuesBuffer", "sorter.indicesBuffer",
           "sorter.initialIndexBuffer", "sorter.uniformBuffers"}

\* DepthSorter.destroy(): its four buffers, then this.sorter.destroy()
DepthSorterDestroy(res) ==
    BitonicSorterDestroy(res \ {"depthSorter.positionsBuffer",
                                "depthSorter.depthBuffer",
                                "depthSorter.projMatrixBuffer",
                                "depthSorter.indexBuffer"})

\* GpuContext.destroy(): this.device.destroy()
GpuContextDestroy(res) == res \ {"device"}

\* the device resources a constructed Renderer holds
RendererResources ==
    {"uniformBuffer", "pointDataBuffer", "drawIndexBuffer",
     "depthSorter.positionsBuffer", "depthSorter.depthBuffer",
     "depthSorter.projMatrixBuffer", "depthSorter.indexBuffer",
     "sorter.valuesBuffer", "sorter.indicesBuffer", "sorter.initialIndexBuffer",
     "sorter.uniformBuffers", "device"}

\* the destroy calls of Renderer.destroyImpl, in order
DestroyImpl(res) ==
    GpuContextDestroy(DepthSorterDestroy(
        res \ {"uniformBuffer", "pointDataBuffer", "drawIndexBuffer"}))

\* BitonicSorter.destroy(): the destroy calls it makes, in order
BitonicSorterDestroyCalls ==
    <<"sorter.valuesBuffer", "sorter.indicesBuffer", "sorter.initialIndexBuffer",
      "sorter.uniformBuffers">>

\* DepthSorter.destroy(): the destroy calls it makes, in order
DepthSorterDestroyCalls ==
    <<"depthSorter.positionsBuffer", "depthSorter.depthBuffer",
      "depthSorter.projMatrixBuffer", "depthSorter.indexBuffer">>
        \o BitonicSorterDestroyCalls

\* GpuContext.destroy(): the destroy call it makes
GpuContextDestroyCalls == <<"device">>

\* Renderer.destroyImpl past its check of destroyCallback: the destroy calls
\* it makes, in order
DestroyImplCalls ==
    <<"uniformBuffer", "pointDataBuffer", "drawIndexBuffer">>
        \o DepthSorterDestroyCalls \o GpuContextDestroyCalls

\* a Renderer has been constructed under the id r
Constructed(r) == ticked[r] \/ scheduled[r] # <<>>

\* a command on the device queue of a renderer: writes carry the camera
\* revision of the data they upload
PageCmd(op, rev) ==
    [op |-> op,
     cam |-> IF op \in {"writeUniforms", "writeBuffer"} THEN rev ELSE -1]

\* the commands Renderer.draw leaves on an empty queue, by name
DrawOps == 
    [x \in 1..Len(DrawBody(CHOOSE m \in Matrices : TRUE, <<>>).queue) |->
        DrawBody(CHOOSE m \in Matrices : TRUE, <<>>).queue[x].op]

\* the state of the InteractiveCamera
InteractiveCamera == [dirty |-> dirty, deltas |-> deltas, rev |-> cameraRev]

\* getCamera leaving the deltas as they are
getCameraKeepsDeltas(c) ==
    IF c.dirty
    THEN [dirty |-> FALSE, deltas |-> c.deltas,
          rev |-> IF c.deltas THEN c.rev + 1 ELSE c.rev]
    ELSE c

\* InteractiveCamera.getCamera(): a dirty camera is translated and rotated by
\* the deltas, which gives a new view matrix unless all of them are zero, the
\* deltas are zeroed and the camera is set clean; what it leaves of c
getCamera(c) ==
    IF c.dirty
    THEN [dirty |-> FALSE, deltas |-> FALSE,
          rev |-> IF c.deltas THEN c.rev + 1 ELSE c.rev]
    ELSE c

\* camera.viewMatrix and camera.getProjMatrix() (perspective, y flipped,
\* times viewMatrix) of the camera at revision rev
ViewMatrix(rev) == [matrix |-> "viewMatrix", rev |-> rev]
ProjMatrix(rev) == [matrix |-> "projMatrix", rev |-> rev]

\* the matrices of the uniforms animate packs for the camera at revision rev
Uniforms(rev) == [viewMatrix |-> ViewMatrix(rev), projMatrix |-> ProjMatrix(rev)]

\* animate taking the matrix of the depth sort from camera.getProjMatrix()
DepthSortMatrixFromProj(rev) == ProjMatrix(rev)

\* this.depthSortMatrix = mat4toArrayOfArrays(camera.viewMatrix)
DepthSortMatrix(rev) == ViewMatrix(rev)

\* animate checking for a destroy request after the frame instead of before
AnimateDestroysLast(r, forceDraw) ==
    [log |-> <<"isDirty", "getCamera", "writeUniforms">> \o DrawOps
                \o (IF destroyCallback[r] # -1 THEN <<"destroyImpl">>
                    ELSE <<"requestAnimationFrame">>),
     destroy |-> destroyCallback[r] # -1,
     next |-> IF destroyCallback[r] # -1 THEN <<>> ELSE <<"plain">>,
     draws |-> TRUE]

\* animate passing its own forceDraw flag on to the callback it schedules
AnimateKeepsForcing(r, forceDraw) ==
    IF destroyCallback[r] # -1
    THEN [log |-> <<"destroyImpl">>, destroy |-> TRUE, next |-> <<>>,
          draws |-> FALSE]
    ELSE IF ~dirty /\ ~forceDraw
    THEN [log |-> <<"isDirty", "requestAnimationFrame">>, destroy |-> FALSE,
          next |-> <<"plain">>, draws |-> FALSE]
    ELSE [log |-> <<"isDirty", "getCamera", "writeUniforms">> \o DrawOps
                     \o <<"requestAnimationFrame">>,
          destroy |-> FALSE, next |-> IF forceDraw THEN <<"force">> ELSE <<"plain">>,
          draws |-> TRUE]

\* animate requesting a frame of its own after draw has requested one
AnimateSchedulesTwice(r, forceDraw) ==
    IF destroyCallback[r] # -1
    THEN [log |-> <<"destroyImpl">>, destroy |-> TRUE, next |-> <<>>,
          draws |-> FALSE]
    ELSE IF ~dirty /\ ~forceDraw
    THEN [log |-> <<"isDirty", "requestAnimationFrame">>, destroy |-> FALSE,
          next |-> <<"plain">>, draws |-> FALSE]
    ELSE [log |-> <<"isDirty", "getCamera", "writeUniforms">> \o DrawOps
                     \o <<"requestAnimationFrame", "requestAnimationFrame">>,
          destroy |-> FALSE, next |-> <<"plain", "plain">>, draws |-> TRUE]

\* animate requesting another frame after it has run destroyImpl
AnimateAfterDestroy(r, forceDraw) ==
    IF destroyCallback[r] # -1
    THEN [log |-> <<"destroyImpl", "requestAnimationFrame">>, destroy |-> TRUE,
          next |-> <<"plain">>, draws |-> FALSE]
    ELSE IF ~dirty /\ ~forceDraw
    THEN [log |-> <<"isDirty", "requestAnimationFrame">>, destroy |-> FALSE,
          next |-> <<"plain">>, draws |-> FALSE]
    ELSE [log |-> <<"isDirty", "getCamera", "writeUniforms">> \o DrawOps
                     \o <<"requestAnimationFrame">>,
          destroy |-> FALSE, next |-> <<"plain">>, draws |-> TRUE]

\* Renderer.animate(forceDraw) of renderer r: what it does, in order (log),
\* whether it releases the resources, the callbacks it hands to
\* requestAnimationFrame (next), and whether it reads the camera, uploads the
\* uniforms and draws
AnimateBody(r, forceDraw) ==
    IF destroyCallback[r] # -1
    THEN [log |-> <<"destroyImpl">>, destroy |-> TRUE, next |-> <<>>,
          draws |-> FALSE]
    ELSE IF ~dirty /\ ~forceDraw
    THEN [log |-> <<"isDirty", "requestAnimationFrame">>, destroy |-> FALSE,
          next |-> <<"plain">>, draws |-> FALSE]
    ELSE [log |-> <<"isDirty", "getCamera", "writeUniforms">> \o DrawOps
                     \o <<"requestAnimationFrame">>,
          destroy |-> FALSE, next |-> <<"plain">>, draws |-> TRUE]

\* the queue operations among the entries of a log
IsQueueOp(e) ==
    e \notin {"isDirty", "getCamera", "requestAnimationFrame", "destroyImpl"}

RECURSIVE Submitted(_, _)
\* the commands a tick with log puts on the device queue at revision rev
Submitted(log, rev) ==
    IF log = <<>> THEN <<>>
    ELSE (IF IsQueueOp(Head(log)) THEN <<PageCmd(Head(log), rev)>> ELSE <<>>)
         \o Submitted(Tail(log), rev)

\* the browser runs the animation-frame callback of renderer r; destroying
\* the device drops the commands it has not yet executed, and destroyed
\* buffers hold nothing
Animate(r) ==
    /\ scheduled[r] # <<>>
    /\ \A l \in Loads : loadPc[l] \notin {"loaded", "resume"}
    /\ \E b \in {AnimateBody(r, Head(scheduled[r]) = "force")} :
       \E c \in {IF b.draws THEN getCamera(InteractiveCamera) ELSE InteractiveCamera} :
        /\ b.draws => Len(devQueue[r]) <= MaxBacklog
        /\ tick' = [renderer |-> r, forceDraw |-> Head(scheduled[r]) = "force",
                    dirty |-> dirty, deltas |-> deltas,
                    pending |-> destroyCallback[r] # -1,
                    log |-> b.log,
                    uniforms |-> IF b.draws THEN Uniforms(c.rev) ELSE <<>>]
        /\ scheduled' = [scheduled EXCEPT ![r] = Tail(@) \o b.next]
        /\ ticked' = [ticked EXCEPT ![r] = TRUE]
        /\ dirty' = c.dirty
        /\ deltas' = c.deltas
        /\ cameraRev' = c.rev
        /\ depthSortMatrix' = [depthSortMatrix EXCEPT
                                  ![r] = IF b.draws THEN DepthSortMatrix(c.rev) ELSE @]
        /\ devQueue' = [devQueue EXCEPT
                           ![r] = IF b.destroy THEN <<>>
                                  ELSE @ \o Submitted(b.log, c.rev)]
        /\ resources' = [resources EXCEPT
                            ![r] = IF b.destroy THEN DestroyImpl(@) ELSE @]
        /\ loadPc' = IF b.destroy /\ loadPc[destroyCallback[r]] = "awaitDestroy"
                     THEN [loadPc EXCEPT ![destroyCallback[r]] = "resume"]
                     ELSE loadPc
        /\ mem' = [mem EXCEPT ![r] = IF b.destroy THEN NoMem ELSE @]
    /\ UNCHANGED <<gpuVars, bench, wgslVars, inputVars, destroyCallback, currentRenderer, victim, plyVars>>

\* what executing the command c does to the buffers m of a renderer
DeviceExec(m, c) ==
    IF c.op = "writeUniforms" THEN [m EXCEPT !.uniformBuffer = c.cam]
    ELSE IF c.op = "writeBuffer" THEN [m EXCEPT !.projMatrixBuffer = c.cam]
    ELSE IF c.op = "computeDepth" THEN [m EXCEPT !.depthBuffer = m.projMatrixBuffer]
    ELSE IF c.op = "clearBuffer" THEN [m EXCEPT !.valuesBuffer = -1]
    ELSE IF c.op = "copyValues" THEN [m EXCEPT !.valuesBuffer = m.depthBuffer]
    ELSE IF c.op = "copyInitialIndices" THEN [m EXCEPT !.indicesBuffer = -1]
    ELSE IF c.op = "sortPass" THEN [m EXCEPT !.indicesBuffer = m.valuesBuffer]
    ELSE IF c.op = "copyToIndexBuffer" THEN [m EXCEPT !.indexBuffer = m.indicesBuffer]
    ELSE IF c.op = "copyDrawIndices"
    THEN [m EXCEPT !.drawIndexBuffer = m.indexBuffer]
    ELSE [m EXCEPT !.drawn = <<m.uniformBuffer, m.drawIndexBuffer>>]

\* the device of renderer r executes the command at the head of its queue
DeviceStep(r) ==
    /\ devQueue[r] # <<>>
    /\ mem' = [mem EXCEPT ![r] = DeviceExec(@, Head(devQueue[r]))]
    /\ devQueue' = [devQueue EXCEPT ![r] = Tail(@)]
    /\ UNCHANGED <<gpuVars, bench, wgslVars, inputVars, resources, destroyCallback, scheduled, ticked,
                   depthSortMatrix, pageVars, plyVars>>

\* the handlers of the InteractiveCamera that change the camera and end in
\* setDirty(): mousemove, wheel and keydown set deltas (keydown stands for
\* the three), setNewCamera replaces the camera; a camera that is dirty with
\* all deltas zero, as mousedown leaves it, is the camera the page starts with
CameraEvents == {"keydown", "setNewCamera"}

\* an input event of the InteractiveCamera is handled
setDirty(event) ==
    /\ (IF deltas THEN cameraRev + 1 ELSE cameraRev) < MaxCameraRev
    /\ \A l \in Loads : loadPc[l] \notin {"loaded", "resume"}
    /\ dirty' = TRUE
    /\ deltas' = (deltas \/ event = "keydown")
    /\ cameraRev' = IF event = "setNewCamera" THEN cameraRev + 1 ELSE cameraRev
    /\ UNCHANGED <<gpuVars, bench, wgslVars, inputVars, rendererVars, currentRenderer, tick, loadPc, victim,
                   plyVars>>

\* no promise continuation is waiting to run: the next event may be handled
NoMicrotask == \A l \in Loads : loadPc[l] \notin {"loaded", "resume"}

\* the change event of the file input fires for load l: handlePlyChange
handlePlyChange(l, file) ==
    /\ l # 0
    /\ loadPc[l] = "idle"
    /\ \A e \in 1..(l - 1) : loadPc[e] # "idle"
    /\ NoMicrotask
    /\ loadPc' = [loadPc EXCEPT ![l] = IF file THEN "reading" ELSE "nofile"]
    /\ UNCHANGED <<gpuVars, bench, wgslVars, inputVars, rendererVars, currentRenderer, dirty, cameraRev, deltas, tick,
                   victim, plyVars>>

\* the outcomes of FileReader.readAsArrayBuffer
ReaderResults == {"binary", "text", "empty", "error"}

\* reader.onload / reader.onerror of loadFileAsArrayBuffer: the promise is
\* resolved with a binary result and rejected otherwise
loadFileAsArrayBuffer(l, result) ==
    /\ loadPc[l] = "reading"
    /\ NoMicrotask
    /\ loadPc' = [loadPc EXCEPT ![l] = IF result = "binary" THEN "loaded"
                                       ELSE "rejected"]
    /\ UNCHANGED <<gpuVars, bench, wgslVars, inputVars, rendererVars, currentRenderer, dirty, cameraRev, deltas, tick,
                   victim, plyVars>>

\* new PackedGaussians(arrayBuffer), then the call of Renderer.requestContext:
\* where the load stands afterwards
ParseAndRequest(parsed) == IF parsed THEN "awaitContext" ELSE "failed"

\* a continuation that runs whether the promise was resolved or rejected
ThenAlways(at) == at \in {"loaded", "rejected"}

\* loadFileAsArrayBuffer(file).then(onFileLoad): the continuation runs once
\* the promise is resolved
Then(at) == at = "loaded"

\* onFileLoad(arrayBuffer) up to its first await that suspends
onFileLoad(l, parsed) ==
    /\ Then(loadPc[l])
    /\ victim' = [victim EXCEPT ![l] = currentRenderer]
    /\ IF currentRenderer # 0
       THEN /\ destroyCallback' = [destroyCallback EXCEPT ![currentRenderer] = l]
            /\ loadPc' = [loadPc EXCEPT ![l] = "awaitDestroy"]
       ELSE /\ loadPc' = [loadPc EXCEPT ![l] = ParseAndRequest(parsed)]
            /\ UNCHANGED destroyCallback
    /\ UNCHANGED <<gpuVars, bench, wgslVars, inputVars, resources, scheduled, ticked, depthSortMatrix,
                   devQueue, mem, currentRenderer, dirty, cameraRev, deltas, tick, plyVars>>

\* onFileLoad resumed after await currentRenderer.destroy()
onFileLoadResumed(l, parsed) ==
    /\ loadPc[l] = "resume"
    /\ loadPc' = [loadPc EXCEPT ![l] = ParseAndRequest(parsed)]
    /\ UNCHANGED <<gpuVars, bench, wgslVars, inputVars, rendererVars, currentRenderer, dirty, cameraRev, deltas, tick,
                   victim, plyVars>>

\* loadDefaultPly once fetch and arrayBuffer have settled
loadDefaultPly(parsed) ==
    /\ loadPc[0] = "fetching"
    /\ NoMicrotask
    /\ loadPc' = [loadPc EXCEPT ![0] = ParseAndRequest(parsed)]
    /\ UNCHANGED <<gpuVars, bench, wgslVars, inputVars, rendererVars, currentRenderer, dirty, cameraRev, deltas, tick,
                   victim, plyVars>>

\* the id the next Renderer gets
NextRenderer == CHOOSE r \in Renderers :
                    ~Constructed(r) /\ \A e \in 1..(r - 1) : Constructed(e)

\* Renderer.requestContext has settled for load l; if it was granted,
\* new Renderer(...) runs, which starts the animation loop unless it throws,
\* and currentRenderer is bound to the new renderer
requestContext(l, granted, built) ==
    /\ loadPc[l] = "awaitContext"
    /\ NoMicrotask
    /\ IF granted /\ built
       THEN /\ \E r \in Renderers : ~Constructed(r)
            /\ resources' = [resources EXCEPT ![NextRenderer] = RendererResources]
            /\ scheduled' = [scheduled EXCEPT ![NextRenderer] = <<"force">>]
            /\ currentRenderer' = NextRenderer
            /\ loadPc' = [loadPc EXCEPT ![l] = "done"]
       ELSE /\ loadPc' = [loadPc EXCEPT ![l] = "failed"]
            /\ UNCHANGED <<resources, scheduled, currentRenderer>>
    /\ UNCHANGED <<gpuVars, bench, wgslVars, inputVars, destroyCallback, ticked, depthSortMatrix, devQueue,
                   mem, dirty, cameraRev, deltas, tick, victim, plyVars>>

\* the scene of every load of the model of the page
PageScene == CHOOSE scene \in Scenes : Len(scene) = ScenePoints

\* the page once its script has run: loadDefaultPly is waiting for the
\* default file, and no renderer exists
InitPage ==
    /\ policy = "discard"
    /\ positionsBuffer = PageScene
    /\ nUnpadded = ScenePoints
    /\ nPadded = nextPowerOfTwo(ScenePoints)
    /\ depthBuffer = Zeros(nextPowerOfTwo(ScenePoints))
    /\ indexBuffer = Zeros(6 * ScenePoints)
    /\ drawIndexBuffer = Zeros(6 * ScenePoints)
    /\ kernel = "scalar"
    /\ ctorArg = nextPowerOfTwo(ScenePoints)
    /\ ctorThrew = RejectsSize(nextPowerOfTwo(ScenePoints))
    /\ nElements = nextPowerOfTwo(ScenePoints)
    /\ valuesBuffer = Zeros(nextPowerOfTwo(ScenePoints))
    /\ indicesBuffer = Zeros(nextPowerOfTwo(ScenePoints))
    /\ initialIndexBuffer = [x \in 1..nextPowerOfTwo(ScenePoints) |-> x - 1]
    /\ bindGroups = createUniforms(nextPowerOfTwo(ScenePoints))
    /\ projMatrixBuffer = Zeros(16)
    /\ expandCount = <<>>
    /\ drawnOrder = <<>>
    /\ frames = 0
    /\ NoCalls
    /\ queue = <<>>
    /\ lanesDone = {}
    /\ inFlight = [g \in Lanes |-> Fresh]
    /\ pc = "idle"
    /\ bench = NoBench
    /\ packing = NoPacking
    /\ NoInput
    /\ shader = NoShader
    /\ NoTarget
    /\ currentRenderer = 0
    /\ resources = [r \in Renderers |-> {}]
    /\ destroyCallback = [r \in Renderers |-> -1]
    /\ scheduled = [r \in Renderers |-> <<>>]
    /\ ticked = [r \in Renderers |-> FALSE]
    /\ depthSortMatrix = [r \in Renderers |-> NoMatrix]
    /\ dirty = TRUE
    /\ cameraRev = 0
    /\ deltas = FALSE
    /\ devQueue = [r \in Renderers |-> <<>>]
    /\ mem = [r \in Renderers |-> NoMem]
    /\ tick = NoTick
    /\ loadPc = [l \in Loads |-> IF l = 0 THEN "fetching" ELSE "idle"]
    /\ victim = [l \in Loads |-> 0]
    /\ NoPly

NextPage ==
    \/ \E parsed \in BOOLEAN : loadDefaultPly(parsed)
    \/ \E l \in Loads, file \in BOOLEAN : handlePlyChange(l, file)
    \/ \E l \in Loads, result \in ReaderResults : loadFileAsArrayBuffer(l, result)
    \/ \E l \in Loads, parsed \in BOOLEAN : onFileLoad(l, parsed)
    \/ \E l \in Loads, parsed \in BOOLEAN : onFileLoadResumed(l, parsed)
    \/ \E l \in Loads, granted \in BOOLEAN, built \in BOOLEAN :
          requestContext(l, granted, built)
    \/ \E r \in Renderers : Animate(r)
    \/ \E r \in Renderers : DeviceStep(r)
    \/ \E event \in CameraEvents : setDirty(event)

SpecPage == InitPage /\ [][NextPage]_vars

\* the browser keeps running animation-frame callbacks and promise
\* continuations, and the devices keep executing their queues
SpecPageFair ==
    /\ SpecPage
    /\ \A r \in Renderers : WF_vars(Animate(r)) /\ WF_vars(DeviceStep(r))
    /\ \A l \in Loads : WF_vars(\E parsed \in BOOLEAN : onFileLoad(l, parsed))

\* ------------------------------------------------------------ PLY loader
\* the degree is held in units of 1 / Milli
Milli == 10 * 100

RECURSIVE Root(_, _, _)
\* the largest s in lo..hi with s * s <= n (Math.sqrt, rounded down)
Root(n, lo, hi) ==
    IF lo >= hi THEN lo
    ELSE IF ((lo + hi + 1) \div 2) * ((lo + hi + 1) \div 2) <= n
    THEN Root(n, (lo + hi + 1) \div 2, hi)
    ELSE Root(n, lo, (lo + hi + 1) \div 2 - 1)

\* nCoeffsPerColor = nRestCoeffs / 3;
\* sphericalHarmonicsDegree = Math.sqrt(nCoeffsPerColor + 1) - 1
Degree(nRestCoeffs) ==
    Root((Milli * Milli * (nRestCoeffs + 3)) \div 3, 0, Milli * (nRestCoeffs + 3))
        - Milli

\* a getter that takes every whole degree
nShCoeffsAnyWhole(degree) ==
    IF degree % Milli = 0
    THEN [threw |-> FALSE,
          value |-> (degree \div Milli + 1) * (degree \div Milli + 1)]
    ELSE [threw |-> TRUE, value |-> 0]

\* get nShCoeffs(): 1, 4, 9, 16 for degree 0, 1, 2, 3, else it throws
nShCoeffs(degree) ==
    IF degree = 0 THEN [threw |-> FALSE, value |-> 1]
    ELSE IF degree = Milli THEN [threw |-> FALSE, value |-> 4]
    ELSE IF degree = 2 * Milli THEN [threw |-> FALSE, value |-> 9]
    ELSE IF degree = 3 * Milli THEN [threw |-> FALSE, value |-> 16]
    ELSE [threw |-> TRUE, value |-> 0]

\* the object new PackedGaussians leaves for a header h, given what the
\* getter returned (n) when the layout of a point was defined: the points are
\* packed only after that
Packed(h, n) ==
    [numGaussians |-> h.vertexCount,
     sphericalHarmonicsDegree |-> Degree(h.nRestCoeffs),
     threw |-> n.threw,
     shCoeffs |-> n.value,
     packed |-> IF n.threw THEN 0 ELSE h.vertexCount]

\* new PackedGaussians(arrayBuffer) for the file with header plyHeader
PackedGaussiansNew ==
    /\ gaussians = <<>>
    /\ gaussians' = Packed(plyHeader, nShCoeffs(Degree(plyHeader.nRestCoeffs)))
    /\ UNCHANGED <<gpuVars, bench, wgslVars, inputVars, rendererVars, pageVars, plyHeader>>

\* a file whose header declares some f_rest_* properties and a vertex count
InitPly ==
    /\ policy = "discard"
    /\ NoSorter
    /\ NoCalls
    /\ queue = <<>>
    /\ lanesDone = {}
    /\ inFlight = [g \in Lanes |-> Fresh]
    /\ pc = "idle"
    /\ bench = NoBench
    /\ packing = NoPacking
    /\ NoInput
    /\ shader = NoShader
    /\ NoDepthSorter
    /\ NoTarget
    /\ NoPage
    /\ plyHeader \in [nRestCoeffs : 0..MaxRest, vertexCount : 0..MaxVertices]
    /\ gaussians = <<>>

NextPly == PackedGaussiansNew

SpecPly == InitPly /\ [][NextPly]_vars

\* ------------------------------------------------- the kernels side by side
\* one stage (j, k) dispatched once with the scalar kernel and once with the
\* vec4 kernel on copies of the same buffers, with as many invocations as
\* bench.threads; itemsPerThread = Math.ceil(nElements / numThreads)
BenchItemsPerThread == CeilDiv(Len(bench.input.data), bench.threads)

BenchLanes == 0..(bench.threads - 1)

\* the sizes, thread counts and stages of the run: power-of-two sizes that
\* fill whole vec4 blocks and that the invocations cover exactly, so that no
\* access is past the buffers
BenchSetups ==
    {c \in [n : 1..BenchN, threads : 1..BenchThreads, p : 1..(BenchN * BenchN)] :
        /\ Log2IsWhole(c.n)
        /\ c.n % 4 = 0
        /\ c.n % c.threads = 0
        /\ c.p <= Len(createUniforms(c.n))}

\* the index buffers of the run: the initial indices, and their reverse
BenchIndices(n) == {[x \in 1..n |-> x - 1], [x \in 1..n |-> n - x]}

InitBench ==
    /\ policy = "discard"
    /\ NoSorter
    /\ NoCalls
    /\ queue = <<>>
    /\ lanesDone = {}
    /\ inFlight = [g \in Lanes |-> Fresh]
    /\ pc = "idle"
    /\ NoDepthSorter
    /\ NoTarget
    /\ NoPage
    /\ NoPly
    /\ packing = NoPacking
    /\ NoInput
    /\ shader = NoShader
    /\ \E c \in BenchSetups :
         \E data \in [1..c.n -> 0..BenchKey], indices \in BenchIndices(c.n) :
            bench = [threads |-> c.threads,
                     j |-> createUniforms(c.n)[c.p][1],
                     k |-> createUniforms(c.n)[c.p][2],
                     input |-> [data |-> data, indices |-> indices],
                     scalar |-> [data |-> data, indices |-> indices],
                     scalarDone |-> {},
                     vec4 |-> [data |-> data, indices |-> indices],
                     vec4Done |-> {},
                     access |-> [g \in 0..(c.threads - 1) |-> NoAccess]]

\* invocation g of the scalar dispatch runs its loop
ScalarMain(g) ==
    /\ g \notin bench.scalarDone
    /\ bench' = [bench EXCEPT
          !.scalar = Advance(bench.scalar, g * BenchItemsPerThread,
                             (g + 1) * BenchItemsPerThread, bench.j, bench.k).m,
          !.scalarDone = bench.scalarDone \cup {g}]
    /\ UNCHANGED <<gpuVars, hostVars>>

\* invocation g of the vec4 dispatch runs its loop
Vec4Main(g) ==
    /\ g \notin bench.vec4Done
    /\ bench' = [bench EXCEPT
          !.vec4 = Vec4Loop(bench.vec4, g * BenchItemsPerThread,
                            (g + 1) * BenchItemsPerThread, bench.j, bench.k),
          !.vec4Done = bench.vec4Done \cup {g},
          !.access[g] = Vec4LoopAccess(bench.vec4, g * BenchItemsPerThread,
                                       (g + 1) * BenchItemsPerThread,
                                       bench.j, bench.k)]
    /\ UNCHANGED <<gpuVars, hostVars>>

NextBench ==
    \/ \E g \in BenchLanes : ScalarMain(g)
    \/ \E g \in BenchLanes : Vec4Main(g)

SpecBench == InitBench /\ [][NextBench]_vars

\* ------------------------------------------------------------ packing.ts
\* A PackingType is the record of what its constructor computed: size and
\* alignment in bytes, n (nValues, nElements or nColumns), rows (nRows of a
\* matrix), stride (of a StaticArray) and the types it is made of.  The
\* members of a Struct are kept in declaration order and named by position.
roundUp(n, multiple) == CeilDiv(n, multiple) * multiple

RECURSIVE AlignLoop(_, _)
\* while (offset % alignment !== 0) offset++
AlignLoop(offset, alignment) ==
    IF offset % alignment # 0 THEN AlignLoop(offset + 1, alignment) ELSE offset

PackingType(kind, size, alignment, n, rows, stride, members) ==
    [kind |-> kind, size |-> size, alignment |-> alignment, n |-> n,
     rows |-> rows, stride |-> stride, members |-> members]

i32 == PackingType("i32", 4, 4, 0, 0, 0, <<>>)
u32 == PackingType("u32", 4, 4, 0, 0, 0, <<>>)
f32 == PackingType("f32", 4, 4, 0, 0, 0, <<>>)

VectorType(baseType, nValues, alignment) ==
    PackingType("vector", baseType.size * nValues, alignment, nValues, 0, 0,
                <<baseType>>)

vec2(baseType) == VectorType(baseType, 2, 8)
vec3(baseType) == VectorType(baseType, 3, 16)
vec4(baseType) == VectorType(baseType, 4, 16)

\* Math.max(...members.map(([_name, type]) => type.alignment))
MaxAlignment(members) ==
    CHOOSE a \in {members[i].alignment : i \in DOMAIN members} :
        \A i \in DOMAIN members : members[i].alignment <= a

RECURSIVE StructEnd(_, _, _)
\* the loop of the Struct constructor from member i on: offset just past
\* the last member
StructEnd(members, i, offset) ==
    IF i > Len(members)
    THEN offset
    ELSE StructEnd(members, i + 1,
                   AlignLoop(offset, members[i].alignment) + members[i].size)

Struct(members) ==
    PackingType("struct", roundUp(StructEnd(members, 1, 0), MaxAlignment(members)),
                MaxAlignment(members), Len(members), 0, 0, members)

StaticArray(type, count) ==
    PackingType("array", count * roundUp(type.size, type.alignment),
                type.alignment, count, 0, roundUp(type.size, type.alignment),
                <<type>>)

\* nRows is 4 in every matrix type the module exports
MatrixType(baseType, nRows, nColumns) ==
    PackingType("matrix", StaticArray(vec4(baseType), nColumns).size,
                vec4(baseType).alignment, nColumns, nRows, 0, <<baseType>>)

mat4x4(baseType) == MatrixType(baseType, 4, 4)

\* what a pack call hands back: the offset it returns and, in order, the
\* view.set* calls it made (path of the number inside the value, byte offset)
PackResult(offset, writes) == [offset |-> offset, writes |-> writes]

\* one round of a packing loop: the inner pack returned r, the loop then
\* skips gap bytes
PackStep(acc, r, gap) == PackResult(r.offset + gap, acc.writes \o r.writes)

\* Struct.pack: offset += this.size - (offset - startingOffset)
StructReturn(type, startingOffset, r) ==
    PackResult(r.offset + (type.size - (r.offset - startingOffset)), r.writes)

\* MatrixType.pack: offset = startOffset + this.size
MatrixReturn(type, startOffset, r) == PackResult(startOffset + type.size, r.writes)

RECURSIVE pack(_, _, _), packEach(_, _, _, _, _)
\* PackingType.pack(offset, value, view) for a value of the shape of type;
\* path is the place of value inside the value of the outermost call
pack(type, offset, path) ==
    CASE type.kind \in {"i32", "u32", "f32"} ->
            PackResult(offset + type.size, <<[path |-> path, offset |-> offset]>>)
      [] type.kind = "vector" ->
            packEach([i \in 1..type.n |-> type.members[1]], 0, 1, path,
                     PackResult(AlignLoop(offset, type.alignment), <<>>))
      [] type.kind = "struct" ->
            StructReturn(type, offset,
                packEach(type.members, 0, 1, path,
                         PackResult(AlignLoop(offset, type.alignment), <<>>)))
      [] type.kind = "array" ->
            packEach([i \in 1..type.n |-> type.members[1]],
                     type.stride - type.members[1].size, 1, path,
                     PackResult(AlignLoop(offset, type.alignment), <<>>))
      [] type.kind = "matrix" ->
            MatrixReturn(type, AlignLoop(offset, type.alignment),
                packEach([i \in 1..(type.n * type.rows) |-> type.members[1]], 0, 1,
                         path, PackResult(AlignLoop(offset, type.alignment), <<>>)))

\* the loop over the parts of a value from part i on; next is the state of
\* the loop after part i
packEach(types, gap, i, path, acc) ==
    IF i > Len(types)
    THEN acc
    ELSE CHOOSE out \in
            {packEach(types, gap, i + 1, path, next) :
                next \in {PackStep(acc, pack(types[i], acc.offset, path \o <<i - 1>>),
                                    gap)}} : TRUE

\* PackedGaussians: the layout of one Gaussian
gaussianLayout(nCoeffs) ==
    Struct(<<vec3(f32), vec3(f32), vec4(f32), f32,
             StaticArray(vec3(f32), nCoeffs)>>)

positionsLayout == vec3(f32)

\* renderer.ts: the camera uniform block
uniformLayout ==
    Struct(<<mat4x4(f32), mat4x4(f32), vec3(f32), f32, f32, f32, f32, f32>>)

\* depth_sorter.ts
projMatrixLayout == mat4x4(f32)

\* sequences of 1..n elements of S
SeqUpTo(S, n) == UNION {[1..l -> S] : l \in 1..n}

LeafTypes == {i32, u32, f32, vec2(f32), vec3(f32), vec4(f32), mat4x4(f32)}

\* what a member of a layout under test can be
MemberTypes ==
    LeafTypes
    \cup {StaticArray(t, n) : t \in LeafTypes, n \in 1..MaxElements}
    \cup {Struct(m) : m \in SeqUpTo({f32, vec2(f32), vec4(f32)}, MaxInner)}

Layouts ==
    {gaussianLayout(n) : n \in {1, 4, 9, 16}}
    \cup {positionsLayout, uniformLayout, projMatrixLayout}
    \cup MemberTypes
    \cup {Struct(m) : m \in SeqUpTo(MemberTypes, MaxMembers)}

InitPack ==
    /\ policy = "discard"
    /\ NoSorter
    /\ NoCalls
    /\ queue = <<>>
    /\ lanesDone = {}
    /\ inFlight = [g \in Lanes |-> Fresh]
    /\ pc = "idle"
    /\ NoDepthSorter
    /\ NoTarget
    /\ NoPage
    /\ NoPly
    /\ bench = NoBench
    /\ shader = NoShader
    /\ NoInput
    /\ \E layout \in Layouts :
          packing = [layout |-> layout, offset |-> 0, calls |-> <<>>]

\* one round of the loop of the PackedGaussians constructor (one upload of
\* the uniforms in animate): the next value is packed at the offset the
\* last pack returned
PackNext ==
    /\ Len(packing.calls) < MaxRecords
    /\ \E r \in {pack(packing.layout, packing.offset, <<>>)} :
          packing' = [packing EXCEPT
              !.offset = r.offset,
              !.calls = Append(@, [start |-> packing.offset, end |-> r.offset,
                                   writes |-> r.writes])]
    /\ UNCHANGED <<gpuVars, bench, rendererVars, pageVars, plyVars, shader, inputVars>>

NextPack == PackNext

SpecPack == InitPack /\ [][NextPack]_vars

\* --------------------------------------------------------------- shaders
\* The f32 values of the vertex stage are whole numbers of 1 / Centi: the
\* coordinates of a direction and the SH constants are held in units of
\* 1 / Centi, a colour in units of 1 / Centi^3; positions and coefficients
\* are whole.  A vec3 is a triple; dir and the colour carry a flag for NaN.
Centi == 10 * 10

VecSub(u, v) == <<u[1] - v[1], u[2] - v[2], u[3] - v[3]>>
VecAdd(u, v) == <<u[1] + v[1], u[2] + v[2], u[3] + v[3]>>
VecScale(c, v) == <<c * v[1], c * v[2], c * v[3]>>
Dot(u, v) == u[1] * v[1] + u[2] * v[2] + u[3] * v[3]
VecSum5(a, b, c, d, e) == VecAdd(VecAdd(VecAdd(VecAdd(a, b), c), d), e)

Finite(v) == [nan |-> FALSE, v |-> v]
NaN == [nan |-> TRUE, v |-> <<0, 0, 0>>]

\* what a device can make of normalize(vec3(0.)), whose result 0. / 0. is
\* indeterminate, and of max(NaN, 0.)
Devices ==
    [normalizeZero : {NaN, Finite(<<0, 0, 0>>), Finite(<<Centi, 0, 0>>)},
     maxOfNaN : {NaN, Finite(<<0, 0, 0>>)}]

\* WGSL normalize(e) = e / length(e), rounded down
normalize(e, device) ==
    IF e = <<0, 0, 0>>
    THEN device.normalizeZero
    ELSE Finite([c \in 1..3 |->
            (e[c] * Centi * Centi)
                \div Root(Centi * Centi * Dot(e, e), 0, Centi * Dot(e, e))])

SH_C0 == 28
SH_C1 == 49
SH_C2 == <<109, -109, 32, -109, 55>>
SH_C3 == <<-59, 289, -46, 37, -46, 145, -59>>

\* var result = SH_C0 * sh[0]
ShBand0(sh) == VecScale(SH_C0 * Centi * Centi, sh[1])

\* SH_C1 * (-y * sh[1] + z * sh[2] - x * sh[3])
ShBand1(d, sh) ==
    VecScale(SH_C1 * Centi,
             VecAdd(VecAdd(VecScale(-d[2], sh[2]), VecScale(d[3], sh[3])),
                    VecScale(-d[1], sh[4])))

\* the five terms with SH_C2
ShBand2(d, sh) ==
    VecSum5(VecScale(SH_C2[1] * d[1] * d[2], sh[5]),
            VecScale(SH_C2[2] * d[2] * d[3], sh[6]),
            VecScale(SH_C2[3] * (2 * d[3] * d[3] - d[1] * d[1] - d[2] * d[2]), sh[7]),
            VecScale(SH_C2[4] * d[1] * d[3], sh[8]),
            VecScale(SH_C2[5] * (d[1] * d[1] - d[2] * d[2]), sh[9]))

\* the seven terms with SH_C3 that shDeg3Code holds in a comment, divided by
\* Centi to stay in the unit of a colour
ShBand3(d, sh) ==
    VecAdd(VecAdd(
        VecSum5(VecScale((SH_C3[1] * d[2] * (3 * d[1] * d[1] - d[2] * d[2])) \div Centi, sh[10]),
                VecScale((SH_C3[2] * d[1] * d[2] * d[3]) \div Centi, sh[11]),
                VecScale((SH_C3[3] * d[2] * (4 * d[3] * d[3] - d[1] * d[1] - d[2] * d[2])) \div Centi, sh[12]),
                VecScale((SH_C3[4] * d[3] * (2 * d[3] * d[3] - 3 * d[1] * d[1] - 3 * d[2] * d[2])) \div Centi, sh[13]),
                VecScale((SH_C3[5] * d[1] * (4 * d[3] * d[3] - d[1] * d[1] - d[2] * d[2])) \div Centi, sh[14])),
        VecScale((SH_C3[6] * d[3] * (d[1] * d[1] - d[2] * d[2])) \div Centi, sh[15])),
        VecScale((SH_C3[7] * d[1] * (d[1] * d[1] - 3 * d[2] * d[2])) \div Centi, sh[16]))

\* result = result + 0.5; return max(result, vec3<f32>(0.)): dir is what
\* normalize returned, result the sum of the bands of a finite dir
ShReturn(dir, result, device) ==
    IF dir.nan
    THEN device.maxOfNaN
    ELSE Finite([c \in 1..3 |->
            IF result[c] + (Centi * Centi * Centi) \div 2 > 0
            THEN result[c] + (Centi * Centi * Centi) \div 2
            ELSE 0])

\* compute_color_from_sh of shDeg1Code
shDeg1Color(dir, sh, device) ==
    ShReturn(dir, VecAdd(ShBand0(sh), ShBand1(dir.v, sh)), device)

\* compute_color_from_sh of shDeg2Code
shDeg2Color(dir, sh, device) ==
    ShReturn(dir, VecAdd(VecAdd(ShBand0(sh), ShBand1(dir.v, sh)), ShBand2(dir.v, sh)),
             device)

\* compute_color_from_sh with the terms of the third degree in force
shDeg3ColorFull(dir, sh, device) ==
    ShReturn(dir, VecAdd(VecAdd(VecAdd(ShBand0(sh), ShBand1(dir.v, sh)),
                                ShBand2(dir.v, sh)), ShBand3(dir.v, sh)),
             device)

\* compute_color_from_sh of shDeg3Code
shDeg3Color(dir, sh, device) ==
    ShReturn(dir, VecAdd(VecAdd(ShBand0(sh), ShBand1(dir.v, sh)), ShBand2(dir.v, sh)),
             device)

\* the length of the array compute_color_from_sh of a program text takes
ShArrayLength(code) ==
    CASE code = "shDeg1Code" -> 4
      [] code = "shDeg2Code" -> 9
      [] code = "shDeg3Code" -> 16

\* compute_color_from_sh(position, sh) of the program text code: the
\* direction it computes and the colour it returns
compute_color_from_sh(code, position, sh, uniforms, device) ==
    [dir |-> normalize(VecSub(position, uniforms.camera_position), device),
     color |->
        CASE code = "shDeg1Code" ->
                shDeg1Color(normalize(VecSub(position, uniforms.camera_position), device),
                            sh, device)
          [] code = "shDeg2Code" ->
                shDeg2Color(normalize(VecSub(position, uniforms.camera_position), device),
                            sh, device)
          [] code = "shDeg3Code" ->
                shDeg3Color(normalize(VecSub(position, uniforms.camera_position), device),
                            sh, device)]

\* vs_points: output.color = compute_color_from_sh(uniforms.camera_position,
\* point.sh)
vs_color(code, position, sh, uniforms, device) ==
    compute_color_from_sh(code, uniforms.camera_position, sh, uniforms, device)

\* { 1: shDeg1Code, 2: shDeg2Code, 3: shDeg3Code }[shDegree]
shComputeCode(shDegree) ==
    CASE shDegree = 1 -> "shDeg1Code"
      [] shDegree = 2 -> "shDeg2Code"
      [] shDegree = 3 -> "shDeg3Code"
      [] OTHER -> "undefined"

\* the program text: the constants that depend on the scene and the text
\* put in place of ${shComputeCode}
getShaderCode(shDegree, count) ==
    [sh_degree |-> shDegree, n_sh_coeffs |-> count,
     shComputeCode |-> shComputeCode(shDegree)]

NoProgram == [sh_degree |-> -1, n_sh_coeffs |-> 0, shComputeCode |-> ""]
NoOutput == [dir |-> NaN, color |-> NaN, drawn |-> FALSE]

\* where the camera and the points can be
Positions == {<<0, 0, 0>>, <<3, 0, 4>>, <<0, -2, 0>>}

ShTriples == {<<0, 0, 0>>, <<1, -1, 2>>}

RECURSIVE LitSets(_, _)
\* the sets of at most k of the coefficients 1..count
LitSets(count, k) ==
    IF k = 0
    THEN {{}}
    ELSE LitSets(count, k - 1)
            \cup {L \cup {i} : L \in LitSets(count, k - 1), i \in 1..count}

\* the coefficient arrays of count triples of which at most MaxLit are not
\* zero
ShArrays(count) ==
    {[i \in 1..count |-> IF i \in L THEN t ELSE <<0, 0, 0>>] :
        L \in LitSets(count, MaxLit), t \in ShTriples}

ShadedPoints == 0..(MaxShaded - 1)

\* a scene of the degrees the loader takes, its points with the same
\* coefficients at any positions, a camera and a device
InitShade ==
    /\ policy = "discard"
    /\ NoSorter
    /\ NoCalls
    /\ queue = <<>>
    /\ lanesDone = {}
    /\ inFlight = [g \in Lanes |-> Fresh]
    /\ pc = "idle"
    /\ NoDepthSorter
    /\ NoTarget
    /\ NoPage
    /\ NoPly
    /\ bench = NoBench
    /\ packing = NoPacking
    /\ NoInput
    /\ \E degree \in 0..3, device \in Devices, camera \in Positions,
          position \in [ShadedPoints -> Positions] :
          \E sh \in ShArrays(nShCoeffs(degree * Milli).value) :
             shader = [device |-> device,
                       sphericalHarmonicsDegree |-> degree,
                       nShCoeffs |-> nShCoeffs(degree * Milli).value,
                       points |-> [p \in ShadedPoints |->
                                      [position |-> position[p], sh |-> sh]],
                       uniforms |-> [camera_position |-> camera],
                       program |-> NoProgram,
                       output |-> [p \in ShadedPoints |-> NoOutput]]

\* the Renderer constructor builds the program for the scene
RendererShader ==
    /\ shader.program = NoProgram
    /\ shader' = [shader EXCEPT
          !.program = getShaderCode(shader.sphericalHarmonicsDegree, shader.nShCoeffs)]
    /\ UNCHANGED <<gpuVars, bench, rendererVars, pageVars, plyVars, packing, inputVars>>

\* the vertex stage runs for a vertex of point p; a program without
\* compute_color_from_sh is no valid shader module and draws nothing
vs_points(p) ==
    /\ shader.program # NoProgram
    /\ shader.program.shComputeCode # "undefined"
    /\ ~shader.output[p].drawn
    /\ \E c \in {vs_color(shader.program.shComputeCode, shader.points[p].position,
                          shader.points[p].sh, shader.uniforms, shader.device)} :
          shader' = [shader EXCEPT
              !.output[p] = [dir |-> c.dir, color |-> c.color, drawn |-> TRUE]]
    /\ UNCHANGED <<gpuVars, bench, rendererVars, pageVars, plyVars, packing, inputVars>>

NextShade ==
    \/ RendererShader
    \/ \E p \in ShadedPoints : vs_points(p)

SpecShade == InitShade /\ [][NextShade]_vars

\* --------------------------------------------------- InteractiveCamera
\* angles and lengths are held in units of 1 / Centi
TwoPi == 628

\* canvas.width and canvas.height: a pixel of drag turns the camera by
\* 2 pi / 628, which is 1 / Centi
CanvasWidth == 628
CanvasHeight == 628

\* Camera.default() as far as the handlers change it: which camera object it
\* is, and the translations and rotations (about x, y, z) applied to its
\* viewMatrix so far, as totals
CameraDefault == [id |-> 0, moved |-> <<0, 0, 0>>, turned |-> <<0, 0, 0>>]

\* the cameras of the preset list handed to setNewCamera
PresetCameras == {[id |-> 1, moved |-> <<0, 0, 0>>, turned |-> <<0, 0, 0>>]}

\* Camera.translate(x, y, z)
translate(camera, x, y, z) == [camera EXCEPT !.moved = VecAdd(@, <<x, y, z>>)]

\* Camera.rotate(x, y, z): rotateX by y, rotateY by x, rotateZ by z
rotate(camera, x, y, z) == [camera EXCEPT !.turned = VecAdd(@, <<y, x, z>>)]

\* InteractiveCamera.default(canvas): the fields of a new InteractiveCamera
InteractiveCameraDefault ==
    [camera |-> CameraDefault, drag |-> FALSE, oldX |-> 0, oldY |-> 0,
     dRX |-> 0, dRY |-> 0, dRZ |-> 0, dTX |-> 0, dTY |-> 0, dTZ |-> 0,
     dirty |-> TRUE]

\* InteractiveCamera.setDirty, setClean and isDirty
setDirtyOf(ic) == [ic EXCEPT !.dirty = TRUE]
setClean(ic) == [ic EXCEPT !.dirty = FALSE]
isDirty(ic) == ic.dirty

\* the mousedown listener
mousedown(ic, e) ==
    setDirtyOf([ic EXCEPT !.drag = TRUE, !.oldX = e.pageX, !.oldY = e.pageY])

\* the mouseup listener
mouseup(ic, e) == [ic EXCEPT !.drag = FALSE]

\* the mousemove listener
mousemove(ic, e) ==
    IF ~ic.drag THEN ic
    ELSE setDirtyOf([ic EXCEPT
            !.dRX = ((e.pageX - ic.oldX) * TwoPi) \div CanvasWidth,
            !.dRY = ((e.pageY - ic.oldY) * TwoPi) \div CanvasHeight,
            !.oldX = e.pageX,
            !.oldY = e.pageY])

\* the wheel listener: this.dTZ = e.deltaY * 0.1
wheel(ic, e) == setDirtyOf([ic EXCEPT !.dTZ = (e.deltaY * Centi) \div 10])

\* 0.1, the step of a key
KeyStep == Centi \div 10

\* the keys of keyMap
MappedKeys == {"w", "s", "a", "d", "q", "e", "j", "l", "i", "k", "u", "o"}

\* keyMap[key](): what a mapped key does to the deltas
keyMap(ic, key) ==
    CASE key = "w" -> [ic EXCEPT !.dTY = @ - KeyStep]
      [] key = "s" -> [ic EXCEPT !.dTY = @ + KeyStep]
      [] key = "a" -> [ic EXCEPT !.dTX = @ - KeyStep]
      [] key = "d" -> [ic EXCEPT !.dTX = @ + KeyStep]
      [] key = "q" -> [ic EXCEPT !.dTZ = @ + KeyStep]
      [] key = "e" -> [ic EXCEPT !.dTZ = @ - KeyStep]
      [] key = "j" -> [ic EXCEPT !.dRX = @ + KeyStep]
      [] key = "l" -> [ic EXCEPT !.dRX = @ - KeyStep]
      [] key = "i" -> [ic EXCEPT !.dRY = @ + KeyStep]
      [] key = "k" -> [ic EXCEPT !.dRY = @ - KeyStep]
      [] key = "u" -> [ic EXCEPT !.dRZ = @ + KeyStep]
      [] key = "o" -> [ic EXCEPT !.dRZ = @ - KeyStep]

\* the keydown listener
keydown(ic, e) ==
    IF e.key \notin MappedKeys THEN ic ELSE setDirtyOf(keyMap(ic, e.key))

\* InteractiveCamera.setNewCamera(newCamera)
setNewCamera(ic, newCamera) == setDirtyOf([ic EXCEPT !.camera = newCamera])

\* InteractiveCamera.getCamera(): what it leaves of the InteractiveCamera;
\* the camera it returns is the field camera of the result
getCameraOf(ic) ==
    IF isDirty(ic)
    THEN setClean([ic EXCEPT
            !.camera = rotate(translate(@, ic.dTX, ic.dTY, ic.dTZ),
                              ic.dRX, ic.dRY, ic.dRZ),
            !.dTX = 0, !.dTY = 0, !.dTZ = 0,
            !.dRX = 0, !.dRY = 0, !.dRZ = 0])
    ELSE ic

\* the pointer positions, wheel amounts and keys of the events offered
PagePositions == {0, 3}
WheelDeltas == {-1, 2}
PressedKeys == MappedKeys \cup {"x"}

\* an event, or a call of setNewCamera by the camera list
InputEvent(type, pageX, pageY, deltaY, key, camera) ==
    [type |-> type, pageX |-> pageX, pageY |-> pageY, deltaY |-> deltaY,
     key |-> key, camera |-> camera]

InputEvents ==
    {InputEvent(type, x, y, 0, "", CameraDefault) :
        type \in {"mousedown", "mousemove"}, x \in PagePositions,
        y \in PagePositions}
    \cup {InputEvent("mouseup", 0, 0, 0, "", CameraDefault)}
    \cup {InputEvent("wheel", 0, 0, deltaY, "", CameraDefault) :
              deltaY \in WheelDeltas}
    \cup {InputEvent("keydown", 0, 0, 0, key, CameraDefault) : key \in PressedKeys}
    \cup {InputEvent("setNewCamera", 0, 0, 0, "", camera) : camera \in PresetCameras}

\* the listener createCallbacks registered for the event e, run on ic
createCallbacks(ic, e) ==
    CASE e.type = "mousedown" -> mousedown(ic, e)
      [] e.type = "mouseup" -> mouseup(ic, e)
      [] e.type = "mousemove" -> mousemove(ic, e)
      [] e.type = "wheel" -> wheel(ic, e)
      [] e.type = "keydown" -> keydown(ic, e)
      [] e.type = "setNewCamera" -> setNewCamera(ic, e.camera)

\* no camera has been read
NoCamera == [id |-> -1, moved |-> <<0, 0, 0>>, turned |-> <<0, 0, 0>>]

\* the page with the default InteractiveCamera and one Renderer just
\* constructed on it: requestAnimationFrame(() => this.animate(true)) is
\* pending and destroyCallback is null
InitCamera ==
    /\ policy = "discard"
    /\ NoSorter
    /\ NoCalls
    /\ queue = <<>>
    /\ lanesDone = {}
    /\ inFlight = [g \in Lanes |-> Fresh]
    /\ pc = "idle"
    /\ NoDepthSorter
    /\ NoTarget
    /\ NoPage
    /\ NoPly
    /\ bench = NoBench
    /\ packing = NoPacking
    /\ shader = NoShader
    /\ interactive = InteractiveCameraDefault
    /\ viewer = [scheduled |-> "force", drew |-> FALSE,
                 depthSortMatrix |-> NoCamera, uniforms |-> NoCamera,
                 handled |-> 0]

\* the browser dispatches the event e to its listener
dispatchEvent(e) ==
    /\ viewer.handled < MaxEvents
    /\ interactive' = createCallbacks(interactive, e)
    /\ viewer' = [viewer EXCEPT !.handled = @ + 1]
    /\ UNCHANGED <<gpuVars, bench, rendererVars, pageVars, plyVars, wgslVars>>

\* Renderer.animate(forceDraw) with destroyCallback null: the callback
\* pending is run with its forceDraw; a frame that is drawn takes
\* depthSortMatrix and the uniforms from the camera getCamera returns
animate ==
    /\ IF ~isDirty(interactive) /\ viewer.scheduled # "force"
       THEN /\ viewer' = [viewer EXCEPT !.scheduled = "plain", !.drew = FALSE]
            /\ UNCHANGED interactive
       ELSE /\ interactive' = getCameraOf(interactive)
            /\ viewer' = [viewer EXCEPT
                             !.scheduled = "plain",
                             !.drew = TRUE,
                             !.depthSortMatrix = getCameraOf(interactive).camera,
                             !.uniforms = getCameraOf(interactive).camera]
    /\ UNCHANGED <<gpuVars, bench, rendererVars, pageVars, plyVars, wgslVars>>

NextCamera ==
    \/ \E e \in InputEvents : dispatchEvent(e)
    \/ animate

SpecCamera == InitCamera /\ [][NextCamera]_vars

\* the browser keeps running the animation-frame callback
SpecCameraFair == SpecCamera /\ WF_vars(animate)

\* ------------------------------------------------------ reference notions
\* buf holds every index of [0, Len(buf)) exactly once
IsPermutation(buf) ==
    \A x \in 0..(Len(buf) - 1) : \E r \in 1..Len(buf) : buf[r] = x

\* n is an exact power of two
IsPowerOfTwo(n) == \E e \in 0..n : 2 ^ e = n

\* the keys along the ranks of perm never decrease
Ascending(keys, perm) ==
    \A r \in 1..(Len(perm) - 1) : keys[perm[r] + 1] <= keys[perm[r + 1] + 1]

\* one stage (j, k) of the bitonic network on a whole array: every pair
\* (i, i ^ j) with i < i ^ j is compare-exchanged at once
NetworkStage(m, j, k) ==
    LET n == Len(m.data)
        Partner(i) == BitXor(i, j)
        Lo(i) == IF Partner(i) > i THEN i ELSE Partner(i)
        Swaps(i) ==
            LET a == m.data[Lo(i) + 1]
                b == m.data[BitXor(Lo(i), j) + 1]
            IN  (BitAnd(Lo(i), k) = 0 /\ a > b) \/ (BitAnd(Lo(i), k) # 0 /\ a < b)
    IN  [data |-> [x \in 1..n |-> IF Swaps(x - 1) THEN m.data[Partner(x - 1) + 1]
                                  ELSE m.data[x]],
         indices |-> [x \in 1..n |-> IF Swaps(x - 1)
                                     THEN m.indices[Partner(x - 1) + 1]
                                     ELSE m.indices[x]]]

RECURSIVE NetworkRun(_, _, _)
NetworkRun(m, groups, p) ==
    IF p > Len(groups) THEN m
    ELSE NetworkRun(NetworkStage(m, groups[p][1], groups[p][2]), groups, p + 1)

\* the permutation the network computes from the identity for the given keys
NetworkArgsort(keys) ==
    NetworkRun([data |-> keys, indices |-> [x \in 1..Len(keys) |-> x - 1]],
               createUniforms(Len(keys)), 1).indices

\* the depth key of point p under the matrix in projMatrixBuffer
DepthKey(p) == MatVec(projMatrixBuffer, positionsBuffer[p + 1], 2)

\* the scene of the four points at depths 5, 1, 3, 2 seen along z
FourPointScene ==
    /\ positionsBuffer = << <<2, 0, 5>>, <<0, 0, 1>>, <<0, 0, 3>>, <<1, 0, 2>> >>
    /\ \A p \in 0..3 : DepthKey(p) = positionsBuffer[p + 1][3]

\* ------------------------------------------------------------------ claims
\* C1 (sort correctness): when an argsort of the scalar engine has completed,
\* the keys it was given, read along the ranks of the index buffer, never
\* decrease, for every power-of-two size and every key array.
SortCorrectness ==
    (kernel = "scalar" /\ pc = "sorted") =>
        /\ \A r \in 1..nElements : indicesBuffer[r] \in 0..(nElements - 1)
        /\ Ascending(sortedKeys, indicesBuffer)

\* C2 (permutation validity): at the start of the sort (after the reset), after
\* every stage and at the end of argsort, the index buffer holds each index of
\* [0, nElements) exactly once, for both kernels.
PermutationValidity ==
    (kernel # "none" /\ pc \in {"reset", "staged", "sorted"}) =>
        /\ Len(indicesBuffer) = nElements
        /\ IsPermutation(indicesBuffer)

\* C3 (padding safety): for a point count that is not a power of two, once
\* DepthSorter.sort has run (depth pass, argsort, expansion) the first N ranks
\* of the sorter's index buffer hold no index >= N, so they are a permutation
\* of 0..N-1, and every vertex id in the index buffer is < 6N.
PaddingSafety ==
    (pc = "expanded" /\ ~IsPowerOfTwo(nUnpadded)) =>
        /\ \A r \in 1..nUnpadded : indicesBuffer[r] < nUnpadded
        /\ IsPermutation(SubSeq(indicesBuffer, 1, nUnpadded))
        /\ \A x \in 1..Len(indexBuffer) : indexBuffer[x] < 6 * nUnpadded

\* C4 (draw-order expansion): after the copy-to-index-buffer pass, entry
\* r*6+v of the vertex index buffer is P[r]*6+v for every rank r < N and
\* v in 0..5, where P is the sorter's index buffer; every rank r < N was
\* expanded exactly once and no rank r >= N was touched.
DrawOrderExpansion ==
    pc = "expanded" =>
        /\ Len(indexBuffer) = 6 * nUnpadded
        /\ \A r \in 0..(nUnpadded - 1) : \A v \in 0..5 :
              indexBuffer[r * 6 + v + 1] = indicesBuffer[r + 1] * 6 + v
        /\ \A r \in 0..(Len(expandCount) - 1) :
              expandCount[r + 1] = IF r < nUnpadded THEN 1 ELSE 0

\* the expansion of a non-identity order over a dispatch that covers more
\* ranks than there are points
DrawOrderExpansionWitness ==
    /\ pc = "expanded"
    /\ nUnpadded = 4
    /\ Len(expandCount) > nUnpadded
    /\ indicesBuffer = <<1, 3, 2, 0>>

\* C5 (end-to-end depth ordering): for points with distinct depth keys,
\* DepthSorter.sort leaves the points ranked by ascending depth key; the four
\* points at depths [5,1,3,2] get the order [1,3,2,0] and the vertex buffer
\* [6..11, 18..23, 12..17, 0..5].
EndToEndDepthOrdering ==
    (pc = "expanded"
        /\ \A p, q \in 0..(nUnpadded - 1) : p # q => DepthKey(p) # DepthKey(q)) =>
        /\ \A r \in 1..nUnpadded : indicesBuffer[r] < nUnpadded
        /\ \A r \in 1..(nUnpadded - 1) :
              DepthKey(indicesBuffer[r]) < DepthKey(indicesBuffer[r + 1])
        /\ FourPointScene =>
              /\ SubSeq(indicesBuffer, 1, 4) = <<1, 3, 2, 0>>
              /\ indexBuffer = <<6, 7, 8, 9, 10, 11, 18, 19, 20, 21, 22, 23,
                                 12, 13, 14, 15, 16, 17, 0, 1, 2, 3, 4, 5>>

\* the four-point scene ranked [1,2,0,3]: the key of point 3 was overwritten
\* by the padding value
FourPointSceneMisordered ==
    /\ pc = "expanded"
    /\ FourPointScene
    /\ depthBuffer = <<5, 1, 3, padDepth>>
    /\ indicesBuffer = <<1, 2, 0, 3>>

BothBlended == blended = <<TRUE, TRUE>>

ConstructionPrecondition ==
    ctorArg >= 0 =>
        /\ ctorThrew <=> ~IsPowerOfTwo(ctorArg)
        /\ ctorThrew => (kernel = "none" /\ nElements = 0 /\ valuesBuffer = <<>>)
        /\ ~ctorThrew => (kernel # "none" /\ nElements = ctorArg
                          /\ Len(valuesBuffer) = ctorArg)

\* the constructor has thrown for size 0
ConstructionPreconditionWitness ==
    ctorThrew /\ ctorArg = 0 /\ kernel = "none"

\* C9 (size-mismatch failure): a call of argsort throws exactly when
\* values.size differs from 4 * nElements, and a call that throws submits no
\* command and leaves the values buffer and the index buffer as they were.
SizeMismatchFailure ==
    [][calls' = calls + 1 =>
          /\ argsortThrew' <=> (lastSize' # 4 * nElements)
          /\ argsortThrew' => /\ queue' = queue
                              /\ valuesBuffer' = valuesBuffer
                              /\ indicesBuffer' = indicesBuffer]_vars

\* an argsort has thrown after an earlier one completed, whose result is
\* still in the index buffer
SizeMismatchFailureWitness ==
    /\ argsortThrew
    /\ lastSize # 4 * nElements
    /\ completed = 1 /\ calls = 2
    /\ pc = "sorted" /\ queue = <<>>
    /\ nElements = 4 /\ indicesBuffer # initialIndexBuffer

\* C10 (sort independence across calls): the index buffer a completed argsort
\* of the scalar engine leaves is a function of that call's keys only: it is
\* the permutation the network computes from the identity, whatever calls
\* came before.
SortIndependence ==
    (kernel = "scalar" /\ pc = "sorted") =>
        indicesBuffer = NetworkArgsort(sortedKeys)

\* C11 (idempotent re-sort): when an argsort of the scalar engine has
\* completed on keys that were already non-decreasing, the index buffer is a
\* permutation under which the keys read in the same sequence; when the keys
\* were strictly increasing it is the identity.
IdempotentResort ==
    (kernel = "scalar" /\ pc = "sorted"
        /\ \A r \in 1..(Len(sortedKeys) - 1) : sortedKeys[r] <= sortedKeys[r + 1]) =>
        /\ \A r \in 1..nElements : indicesBuffer[r] \in 0..(nElements - 1)
        /\ IsPermutation(indicesBuffer)
        /\ \A r \in 1..nElements : sortedKeys[indicesBuffer[r] + 1] = sortedKeys[r]
        /\ (\A r \in 1..(Len(sortedKeys) - 1) : sortedKeys[r] < sortedKeys[r + 1])
              => \A r \in 1..nElements : indicesBuffer[r] = r - 1

\* the log of a tick holds a queue operation
Drew(log) == \E x \in 1..Len(log) : IsQueueOp(log[x])

\* how often e occurs in log
Occurrences(log, e) == Cardinality({x \in 1..Len(log) : log[x] = e})

\* C12 (cooperative destroy): device resources of a renderer are released
\* only by an animate call that found a destroy request; such a call does
\* nothing else (no camera read, no upload, sort or draw, in particular no
\* release between two queue submissions) and schedules no further callback.
CooperativeDestroy ==
    [][/\ \A r \in Renderers :
            (resources[r] # {} /\ resources'[r] # resources[r]) =>
                /\ tick'.renderer = r
                /\ tick'.pending
                /\ resources'[r] = {}
       /\ tick'.pending =>
            /\ tick'.log = <<"destroyImpl">>
            /\ scheduled'[tick'.renderer] = <<>>
       /\ \A x \in 1..Len(tick'.log) : tick'.log[x] = "destroyImpl" => x = 1
       /\ \A r \in Renderers :
            (destroyCallback'[r] # destroyCallback[r]) => resources'[r] = resources[r]
      ]_vars

\* a destroy request was honoured by an animate call after the camera moved
CooperativeDestroyWitness ==
    /\ tick.renderer # 0
    /\ tick.pending
    /\ tick.log = <<"destroyImpl">>
    /\ resources[tick.renderer] = {}
    /\ scheduled[tick.renderer] = <<>>
    /\ cameraRev = MaxCameraRev

\* C14 (redraw rule): an animate call that finds no destroy request reads the
\* camera, uploads the uniforms, sorts and draws if and only if the camera is
\* dirty or forceDraw is set; otherwise it only tests the camera and leaves
\* queue, buffers and camera as they are; either way it schedules exactly one
\* callback; forceDraw is set only in the first call of a renderer.
RedrawRule ==
    [][/\ (tick'.renderer # 0 /\ ~tick'.pending) =>
            /\ Drew(tick'.log) <=> (tick'.dirty \/ tick'.forceDraw)
            /\ Drew(tick'.log) =>
                  /\ Occurrences(tick'.log, "getCamera") = 1
                  /\ Occurrences(tick'.log, "writeUniforms") = 1
                  /\ Occurrences(tick'.log, "copyToIndexBuffer") = 1
                  /\ Occurrences(tick'.log, "renderPass") = 1
            /\ ~Drew(tick'.log) => tick'.log = <<"isDirty", "requestAnimationFrame">>
            /\ Occurrences(tick'.log, "requestAnimationFrame") = 1
            /\ scheduled'[tick'.renderer] # <<>>
       /\ (tick' # tick /\ ~tick'.pending /\ ~Drew(tick'.log)) =>
            /\ devQueue' = devQueue
            /\ mem' = mem
            /\ dirty' = dirty /\ cameraRev' = cameraRev /\ deltas' = deltas
            /\ scheduled'[tick'.renderer] = <<"plain">>
       /\ (tick' # tick /\ tick'.forceDraw) => ~ticked[tick'.renderer]
       /\ \A r \in Renderers : \A x \in 1..Len(scheduled'[r]) :
              scheduled'[r][x] = "force" => ~ticked'[r]
      ]_vars

\* a renderer that has drawn its forced first frame idles on a clean camera
RedrawRuleWitness ==
    /\ tick.renderer # 0
    /\ ~tick.pending /\ ~tick.dirty /\ ~tick.forceDraw
    /\ tick.log = <<"isDirty", "requestAnimationFrame">>
    /\ mem[tick.renderer].drawn # <<>>
    /\ scheduled[tick.renderer] = <<"plain">>

\* the number of compare-exchange stages of a network of n = 2^m elements
StageCount(n) == (CeilLog2(n) * (CeilLog2(n) + 1)) \div 2

\* C15 (per-frame submission order): a drawing animate call puts on the
\* queue, in this order, the uniform upload, the sort-matrix write, the depth
\* pass, the clear, key copy and index reset with all sort stages, the
\* expansion pass and at last the copy into the draw index buffer with the
\* render pass; every frame is drawn with a draw order derived from the same
\* camera revision as its uniforms.
SubmissionOrder ==
    /\ Drew(tick.log) =>
          SelectSeq(tick.log, IsQueueOp) =
              <<"writeUniforms", "writeBuffer", "computeDepth", "clearBuffer",
                "copyValues", "copyInitialIndices">>
              \o [x \in 1..StageCount(nPadded) |-> "sortPass"]
              \o <<"copyToIndexBuffer", "copyDrawIndices", "renderPass">>
    /\ \A r \in Renderers :
          mem[r].drawn # <<>> =>
              /\ mem[r].drawn[1] = mem[r].drawn[2]
              /\ mem[r].drawn[1] >= 0

\* a renderer has drawn a second frame, after the camera moved
SubmissionOrderWitness ==
    \E r \in Renderers :
        /\ mem[r].drawn = <<MaxCameraRev, MaxCameraRev>>
        /\ MaxCameraRev > 0
        /\ devQueue[r] = <<>>

\* C16 (load-time data error): a load whose file read was rejected never
\* enters onFileLoad and requests no destroy; the rejection leaves the
\* current renderer, its resources and its scheduled callback as they are.
LoadTimeDataError ==
    [][\A l \in Loads :
          /\ loadPc[l] = "rejected" => loadPc'[l] = "rejected"
          /\ (loadPc[l] = "reading" /\ loadPc'[l] = "rejected") =>
                /\ currentRenderer' = currentRenderer
                /\ resources' = resources
                /\ scheduled' = scheduled
                /\ destroyCallback' = destroyCallback
          /\ loadPc'[l] = "rejected" =>
                /\ victim'[l] = 0
                /\ \A r \in Renderers : destroyCallback'[r] # l
      ]_vars

\* a file read was rejected, and the current renderer holds all its
\* resources, was the last to tick and is scheduled again
LoadTimeDataErrorWitness ==
    \E l \in Loads :
        /\ loadPc[l] = "rejected"
        /\ currentRenderer # 0
        /\ resources[currentRenderer] = RendererResources
        /\ tick.renderer = currentRenderer
        /\ ~tick.pending
        /\ scheduled[currentRenderer] = <<"plain">>

\* C13 (destroy completes): every promise returned by Renderer.destroy() is
\* eventually resolved, given that animation-frame callbacks keep firing;
\* when it is resolved every device resource of the renderer has been
\* destroyed and its animation loop has stopped.
DestroyCompletes ==
    /\ \A l \in Loads : (loadPc[l] = "awaitDestroy") ~> (loadPc[l] # "awaitDestroy")
    /\ [](\A l \in Loads :
            loadPc[l] = "resume" =>
                /\ resources[victim[l]] = {}
                /\ scheduled[victim[l]] = <<>>)

\* C17 (failed scene switch keeps the previous scene): once a scene switch
\* has failed after the file was read, the renderer that was current when it
\* began still holds its resources and its animation loop still runs.
FailedSwitchKeepsPrevious ==
    \A l \in Loads :
        (loadPc[l] = "failed" /\ victim[l] # 0) =>
            /\ resources[victim[l]] = RendererResources
            /\ scheduled[victim[l]] # <<>>

\* C18 (release after ready): destroy is requested of a renderer only by a
\* load whose new Renderer has been constructed, and from the construction
\* of the first renderer on some renderer holds its resources.
ReleaseAfterReady ==
    /\ \A r \in Renderers :
          destroyCallback[r] # -1 => loadPc[destroyCallback[r]] = "done"
    /\ (\E r \in Renderers : Constructed(r)) =>
          \E r \in Renderers : resources[r] = RendererResources

\* the degree whose coefficient count leaves R rest properties, -1 if none
DegreeOf(R) ==
    IF \E d \in 0..3 : R = 3 * ((d + 1) * (d + 1) - 1)
    THEN CHOOSE d \in 0..3 : R = 3 * ((d + 1) * (d + 1) - 1)
    ELSE -1

\* C19 (SH degree inference): a header with R = 0, 9, 24, 45 f_rest_*
\* properties gives degree 0, 1, 2, 3 and 1, 4, 9, 16 coefficient triples per
\* point; for every other R the PackedGaussians constructor throws
\* 'Unsupported SH degree' before it packs a point.
SHDegreeInference ==
    gaussians # <<>> =>
        IF plyHeader.nRestCoeffs \in {0, 9, 24, 45}
        THEN /\ ~gaussians.threw
             /\ gaussians.sphericalHarmonicsDegree
                    = Milli * DegreeOf(plyHeader.nRestCoeffs)
             /\ gaussians.shCoeffs = (DegreeOf(plyHeader.nRestCoeffs) + 1)
                                        * (DegreeOf(plyHeader.nRestCoeffs) + 1)
             /\ DegreeOf(0) = 0 /\ DegreeOf(9) = 1
             /\ DegreeOf(24) = 2 /\ DegreeOf(45) = 3
             /\ gaussians.packed = plyHeader.vertexCount
        ELSE /\ gaussians.threw
             /\ gaussians.packed = 0

\* a file with 45 rest properties was loaded at degree 3 with 16 triples
SHDegreeInferenceWitness ==
    /\ gaussians # <<>>
    /\ plyHeader.nRestCoeffs = 45
    /\ plyHeader.vertexCount > 0
    /\ gaussians.sphericalHarmonicsDegree = 3 * Milli
    /\ gaussians.shCoeffs = 16
    /\ gaussians.packed = plyHeader.vertexCount

\* stage number p of the network on n elements: merge size 2^a and distance
\* 2^(a-b), where p is the b-th stage of merge size 2^a
ExpectedStage(p) ==
    LET a == CHOOSE a \in 1..p : (a * (a - 1)) \div 2 < p /\ p <= (a * (a + 1)) \div 2
    IN  <<2 ^ (a - (p - (a * (a - 1)) \div 2)), 2 ^ a>>

IsSortPass(c) == c.op = "sortPass"

\* the (j, k) of the sort passes among the commands a step appended to the queue
AppendedStages ==
    [p \in 1..Len(SelectSeq(SubSeq(queue', Len(queue) + 1, Len(queue')), IsSortPass)) |->
        <<SelectSeq(SubSeq(queue', Len(queue) + 1, Len(queue')), IsSortPass)[p].j,
          SelectSeq(SubSeq(queue', Len(queue) + 1, Len(queue')), IsSortPass)[p].k>>]

\* C20 (stage schedule and barrier): an argsort on N = 2^m elements encodes
\* exactly m(m+1)/2 compute passes, in the order k = 2, 4, .., N and for each
\* k, j = k/2, .., 1; lanes act only in the pass at the head of the queue,
\* its lanes start afresh, and the pass gives way to the next command only
\* when every one of its lanes has ended.
StageSchedule ==
    [][/\ (calls' = calls + 1 /\ ~argsortThrew') =>
            /\ Len(AppendedStages) = StageCount(nElements)
            /\ \A p \in 1..Len(AppendedStages) : AppendedStages[p] = ExpectedStage(p)
       /\ (lanesDone' # lanesDone \/ inFlight' # inFlight) =>
            /\ queue # <<>>
            /\ Head(queue).op \in {"sortPass", "computeDepth", "copyToIndexBuffer"}
       /\ (queue # <<>> /\ Head(queue).op = "sortPass" /\ Len(queue') < Len(queue)) =>
            /\ queue' = Tail(queue)
            /\ Cardinality(lanesDone) = numThreads - 1
            /\ lanesDone' = {}
            /\ \A g \in Lanes : inFlight'[g] = Fresh
       /\ (queue # <<>> /\ Head(queue).op = "sortPass"
             /\ (valuesBuffer' # valuesBuffer \/ indicesBuffer' # indicesBuffer)) =>
            \/ queue' = queue /\ lanesDone' # Lanes
            \/ queue' = Tail(queue) /\ lanesDone' = {}
      ]_vars

\* the second of the three stages of a sort of four elements is under way
StageScheduleWitness ==
    /\ nElements = 4
    /\ Len(queue) = 2
    /\ Head(queue).op = "sortPass"
    /\ Head(queue).j = 2 /\ Head(queue).k = 4
    /\ lanesDone # {}

\* the number of stages of the argsort under execution that have ended: its
\* bind groups less the sort passes still at the head of the queue
StagesDone ==
    Len(bindGroups)
      - Cardinality({p \in 1..Len(queue) : \A q \in 1..p : IsSortPass(queue[q])})

\* C21 (intra-stage independence, scalar kernel): the invocations of one
\* stage touch disjoint pairs, and those whose range lies at or beyond N
\* touch nothing below N, so that whatever the interleaving, the buffers a
\* stage leaves are those of the network stage applied to the buffers it
\* found: after each stage the buffers are the network's for the stages run.
IntraStageIndependence ==
    (kernel = "scalar" /\ pc \in {"staged", "sorted"}) =>
        [data |-> valuesBuffer, indices |-> indicesBuffer]
            = NetworkRun([data |-> sortedKeys, indices |-> initialIndexBuffer],
                         SubSeq(bindGroups, 1, StagesDone), 1)

\* C22 (vec4 kernel equivalence): for every thread count and power-of-two
\* size whose itemsPerThread is a multiple of 4, every stage and every
\* content of the two buffers, a dispatch of the vec4 kernel leaves the same
\* buffers as a dispatch of the scalar kernel.
Vec4KernelEquivalence ==
    (/\ bench # NoBench
     /\ BenchItemsPerThread % 4 = 0
     /\ bench.scalarDone = BenchLanes
     /\ bench.vec4Done = BenchLanes) =>
        bench.vec4 = bench.scalar

\* C23 (vec4 race freedom): in one dispatch of the vec4 kernel no block of
\* the buffers is written by one invocation and read or written by another,
\* and each invocation takes element n + l from component l of the block
\* that holds it, for every accepted size, those with itemsPerThread 1 or 2
\* included.
Vec4RaceFreedom ==
    bench # NoBench =>
        /\ \A g \in bench.vec4Done : \A h \in bench.vec4Done \ {g} :
              bench.access[g].writes
                \cap (bench.access[h].reads \cup bench.access[h].writes) = {}
        /\ \A g \in bench.vec4Done : \A n \in bench.access[g].starts :
              4 * (n \div 4) = n

\* how often the key v occurs in buf
KeyCount(buf, v) == Cardinality({x \in 1..Len(buf) : buf[x] = v})

\* C24 (key/index lockstep): after the initial copies and after every stage
\* of either kernel, the value at each rank is the input key of the index at
\* that rank, and the value buffer holds the input keys, each as often as the
\* input does.
KeyIndexLockstep ==
    (kernel # "none" /\ pc \in {"reset", "staged", "sorted"}) =>
        /\ \A r \in 1..nElements :
              /\ indicesBuffer[r] \in 0..(nElements - 1)
              /\ valuesBuffer[r] = sortedKeys[indicesBuffer[r] + 1]
        /\ \A v \in 0..MaxKey : KeyCount(valuesBuffer, v) = KeyCount(sortedKeys, v)

\* C25 (no exchange on equality): a step of a stage of the scalar kernel
\* leaves a pair (i, i ^ j) whose two keys are equal as it is in both
\* buffers, whatever the direction bit of i; and after every stage of an
\* argsort whose keys are all equal the index buffer is the identity.
NoExchangeOnEquality ==
    [][(kernel = "scalar" /\ queue # <<>> /\ Head(queue).op = "sortPass") =>
          /\ \A i \in 0..(nElements - 1) :
                (/\ BitXor(i, Head(queue).j) > i
                 /\ valuesBuffer[i + 1] = valuesBuffer[BitXor(i, Head(queue).j) + 1]) =>
                    \A x \in {i + 1, BitXor(i, Head(queue).j) + 1} :
                        /\ valuesBuffer'[x] = valuesBuffer[x]
                        /\ indicesBuffer'[x] = indicesBuffer[x]
          /\ (/\ pc' \in {"staged", "sorted"}
              /\ \A r \in 1..nElements : sortedKeys[r] = sortedKeys[1]) =>
                 indicesBuffer' = [x \in 1..nElements |-> x - 1]
      ]_vars

\* an argsort of four equal keys by the scalar kernel has completed
NoExchangeOnEqualityWitness ==
    /\ kernel = "scalar"
    /\ pc = "sorted"
    /\ sortedKeys = <<1, 1, 1, 1>>
    /\ indicesBuffer = <<0, 1, 2, 3>>

\* C26 (padded length): for every point count N >= 1 the padded length is
\* the least power of two >= N, and is N exactly when N is a power of two;
\* the BitonicSorter of the DepthSorter was constructed, with that size, the
\* depth buffer holds that many f32, and no argsort of it fails the size check.
PaddedLength ==
    nUnpadded >= 1 =>
        /\ IsPowerOfTwo(nPadded)
        /\ nPadded >= nUnpadded
        /\ \A e \in 0..nPadded : 2 ^ e >= nUnpadded => 2 ^ e >= nPadded
        /\ (nPadded = nUnpadded) <=> IsPowerOfTwo(nUnpadded)
        /\ ~ctorThrew
        /\ nElements = nPadded
        /\ 4 * Len(depthBuffer) = 4 * nextPowerOfTwo(nUnpadded)
        /\ ~argsortThrew
        /\ calls > 0 => lastSize = 4 * nElements

\* a scene of three points, padded to four, has been sorted
PaddedLengthWitness ==
    /\ nUnpadded = 3
    /\ nPadded = 4
    /\ calls = 1
    /\ pc = "sorted"
    /\ Len(sortedKeys) = 4

\* C27 (depth key fill): when the depth pass has ended, entry i of the depth
\* buffer is the depth key of point i under the matrix of this frame for
\* i < N and the padding value for N <= i < nPadded, for every N >= 1: each
\* entry was written once, by the invocation whose range holds it.
DepthKeyFill ==
    (pc = "keyed" /\ nUnpadded >= 1) =>
        /\ Len(depthBuffer) = nPadded
        /\ \A i \in 0..(nPadded - 1) :
              depthBuffer[i + 1] = IF i < nUnpadded THEN DepthKey(i) ELSE padDepth

\* C29 (non-overlapping frame loop): no renderer ever has more than one
\* animation-frame callback pending; an animate call runs only as a pending
\* callback, which it uses up, and requests exactly one further frame, on the
\* clean path and on the draw path alike, except the call that honours a
\* destroy request, which requests none; beside animate only the
\* constructor requests a frame, the first one.
NonOverlappingFrameLoop ==
    [][/\ \A r \in Renderers : Len(scheduled'[r]) <= 1
       /\ tick' # tick =>
            /\ scheduled[tick'.renderer] # <<>>
            /\ Occurrences(tick'.log, "requestAnimationFrame")
                  = IF tick'.pending THEN 0 ELSE 1
            /\ Len(scheduled'[tick'.renderer])
                  = Len(scheduled[tick'.renderer]) - 1
                      + Occurrences(tick'.log, "requestAnimationFrame")
            /\ \A r \in Renderers \ {tick'.renderer} : scheduled'[r] = scheduled[r]
       /\ tick' = tick =>
            \A r \in Renderers :
                scheduled'[r] # scheduled[r] =>
                    /\ ~Constructed(r)
                    /\ Len(scheduled'[r]) = 1
      ]_vars

\* a renderer drew a frame for a moved camera, not its first frame, and has
\* one callback pending; another renderer has had its last tick
NonOverlappingFrameLoopWitness ==
    /\ tick.renderer # 0
    /\ ~tick.pending /\ tick.dirty /\ ~tick.forceDraw
    /\ Drew(tick.log)
    /\ Len(scheduled[tick.renderer]) = 1
    /\ \E r \in Renderers : ticked[r] /\ scheduled[r] = <<>>

\* the commands a step appended to the device queue of renderer r
AppendedTo(r) == SubSeq(devQueue'[r], Len(devQueue[r]) + 1, Len(devQueue'[r]))

CameraReadOnlyAsStated ==
    [][tick' # tick =>
          /\ cameraRev' = cameraRev
          /\ deltas' = deltas
          /\ dirty' = dirty
      ]_vars

\* C30 (camera read once per frame): an animate call that does not draw
\* leaves the InteractiveCamera as it was; one that draws calls getCamera
\* exactly once, which leaves a clean camera as it was and, of a dirty one,
\* applies the pending deltas to the view matrix, zeroes them and clears the
\* dirty flag; the frame uses the view matrix so obtained. Beside that the
\* camera changes only in its own handlers, which set it dirty.
CameraReadOncePerFrame ==
    [][/\ tick' # tick =>
            /\ Occurrences(tick'.log, "getCamera") = IF Drew(tick'.log) THEN 1 ELSE 0
            /\ ~Drew(tick'.log) =>
                  cameraRev' = cameraRev /\ deltas' = deltas /\ dirty' = dirty
            /\ Drew(tick'.log) =>
                  /\ dirty' = FALSE
                  /\ deltas' = (deltas /\ ~dirty)
                  /\ cameraRev' = IF dirty /\ deltas THEN cameraRev + 1 ELSE cameraRev
                  /\ tick'.uniforms = Uniforms(cameraRev')
       /\ (tick' = tick /\ <<cameraRev', deltas', dirty'>> # <<cameraRev, deltas, dirty>>)
            => dirty'
      ]_vars

\* a drawing animate call found the camera dirty with deltas pending and
\* left it clean, moved, with the deltas zeroed
CameraReadOncePerFrameWitness ==
    /\ tick.renderer # 0
    /\ tick.dirty /\ tick.deltas /\ ~tick.forceDraw
    /\ Drew(tick.log)
    /\ ~dirty /\ ~deltas
    /\ cameraRev = MaxCameraRev
    /\ tick.uniforms = Uniforms(MaxCameraRev)


\* ------------------------------------------------ the layout of WGSL data
\* the smallest multiple of a at or after x
AlignedAtOrAfter(x, a) == CHOOSE m \in x..(x + a - 1) : m % a = 0

RECURSIVE AlignOf(_), SizeOf(_), OffsetOfMember(_, _), PlacesOf(_, _, _)
\* the alignment the layout rule gives a type
AlignOf(type) ==
    CASE type.kind \in {"i32", "u32", "f32"} -> 4
      [] type.kind = "vector" -> IF type.n = 2 THEN 8 ELSE 16
      [] type.kind = "matrix" -> 16
      [] type.kind = "array" -> AlignOf(type.members[1])
      [] type.kind = "struct" ->
            CHOOSE a \in {AlignOf(type.members[i]) : i \in DOMAIN type.members} :
                \A i \in DOMAIN type.members : AlignOf(type.members[i]) <= a

\* the size the layout rule gives a type
SizeOf(type) ==
    CASE type.kind \in {"i32", "u32", "f32"} -> 4
      [] type.kind = "vector" -> 4 * type.n
      [] type.kind = "matrix" -> 16 * type.n
      [] type.kind = "array" ->
            type.n * AlignedAtOrAfter(SizeOf(type.members[1]), AlignOf(type.members[1]))
      [] type.kind = "struct" ->
            AlignedAtOrAfter(OffsetOfMember(type, type.n) + SizeOf(type.members[type.n]),
                             AlignOf(type))

\* the offset the layout rule gives member i of a struct
OffsetOfMember(type, i) ==
    IF i = 1
    THEN 0
    ELSE AlignedAtOrAfter(OffsetOfMember(type, i - 1) + SizeOf(type.members[i - 1]),
                          AlignOf(type.members[i]))

\* where the layout rule places every number of a value that starts at start
PlacesOf(type, start, path) ==
    CASE type.kind \in {"i32", "u32", "f32"} -> {[path |-> path, offset |-> start]}
      [] type.kind = "vector" ->
            {[path |-> path \o <<i>>, offset |-> start + 4 * i] : i \in 0..(type.n - 1)}
      [] type.kind = "matrix" ->
            {[path |-> path \o <<4 * c + r>>, offset |-> start + 16 * c + 4 * r] :
                c \in 0..(type.n - 1), r \in 0..3}
      [] type.kind = "array" ->
            UNION {PlacesOf(type.members[1],
                            start + i * AlignedAtOrAfter(SizeOf(type.members[1]),
                                                         AlignOf(type.members[1])),
                            path \o <<i>>) : i \in 0..(type.n - 1)}
      [] type.kind = "struct" ->
            UNION {PlacesOf(type.members[i], start + OffsetOfMember(type, i),
                            path \o <<i - 1>>) : i \in 1..type.n}

RECURSIVE PartsOf(_)
\* a type and every type it is made of
PartsOf(type) ==
    {type} \cup UNION {PartsOf(type.members[i]) : i \in DOMAIN type.members}

\* the set of the writes of a pack call
WritesOf(call) == {call.writes[x] : x \in DOMAIN call.writes}

\* where a pack call wrote the first number of member i of a struct
WrittenAt(call, i) ==
    CHOOSE o \in {w.offset : w \in {v \in WritesOf(call) : v.path[1] = i - 1}} :
        \A w \in WritesOf(call) : w.path[1] = i - 1 => o <= w.offset

\* C31 (as stated): the constructors give every type of a layout the size,
\* alignment and stride of the layout rule, and every pack call that starts
\* at an aligned offset writes each number of the value at the offset the
\* rule gives it and returns start + size; a Gaussian has its members at
\* 0, 16, 32, 48, 64 and the size 64 + 16 * nShCoeffs, the camera uniform
\* block has its members at 0, 64, 128, 140, 144, 148, 152, 156 and the
\* size 160
BufferLayout ==
    packing # NoPacking =>
        /\ \A t \in PartsOf(packing.layout) :
              /\ t.size = SizeOf(t)
              /\ t.alignment = AlignOf(t)
              /\ t.kind = "array" =>
                    t.stride = AlignedAtOrAfter(t.members[1].size, t.members[1].alignment)
        /\ \A x \in DOMAIN packing.calls :
              packing.calls[x].start % packing.layout.alignment = 0 =>
                  /\ WritesOf(packing.calls[x]) =
                        PlacesOf(packing.layout, packing.calls[x].start, <<>>)
                  /\ packing.calls[x].end = packing.calls[x].start + packing.layout.size
        /\ \A n \in {1, 4, 9, 16} :
              packing.layout = gaussianLayout(n) =>
                  /\ packing.layout.size = 64 + 16 * n
                  /\ \A x \in DOMAIN packing.calls :
                        [i \in 1..5 |-> WrittenAt(packing.calls[x], i)
                                        - packing.calls[x].start]
                            = <<0, 16, 32, 48, 64>>
        /\ packing.layout = uniformLayout =>
              /\ packing.layout.size = 160
              /\ \A x \in DOMAIN packing.calls :
                    [i \in 1..8 |-> WrittenAt(packing.calls[x], i)
                                    - packing.calls[x].start]
                        = <<0, 64, 128, 140, 144, 148, 152, 156>>

\* the same for the layouts in which no Struct is a member of a Struct
BufferLayoutOfFlatStructs ==
    (/\ packing # NoPacking
     /\ \A t \in PartsOf(packing.layout) :
           t.kind = "struct" => \A i \in DOMAIN t.members : t.members[i].kind # "struct")
        => BufferLayout

\* a Gaussian of degree 3 and a second one behind it have been packed
BufferLayoutWitness ==
    /\ packing # NoPacking
    /\ packing.layout = gaussianLayout(16)
    /\ Len(packing.calls) = 2
    /\ packing.calls[2].start = 320


\* C32 (as stated): for every degree the loader takes (0, 1, 2, 3) the
\* program getShaderCode returns holds a definition of compute_color_from_sh,
\* and the coefficient array that definition takes is as long as nShCoeffs
\* of that degree (1, 4, 9, 16)
ShaderCoverage ==
    (shader # NoShader /\ shader.program # NoProgram) =>
        /\ shader.program.shComputeCode # "undefined"
        /\ ShArrayLength(shader.program.shComputeCode)
              = nShCoeffs(shader.sphericalHarmonicsDegree * Milli).value

\* the same for the degrees 1, 2 and 3
ShaderCoverageAboveZero ==
    (shader # NoShader /\ shader.sphericalHarmonicsDegree # 0) => ShaderCoverage

\* the points of the shaded scene whose vertex stage has run
Shaded == {p \in ShadedPoints : shader.output[p].drawn}

ViewDependentColour ==
    (shader # NoShader /\ shader.sphericalHarmonicsDegree >= 1) =>
        /\ \A p \in Shaded :
              shader.output[p].dir
                  = normalize(VecSub(shader.points[p].position,
                                     shader.uniforms.camera_position), shader.device)
        /\ \A p, q \in Shaded :
              normalize(VecSub(shader.points[p].position,
                               shader.uniforms.camera_position), shader.device)
                  # normalize(VecSub(shader.points[q].position,
                                     shader.uniforms.camera_position), shader.device)
              => shader.output[p].dir # shader.output[q].dir

\* what the vertex stage does: every splat is evaluated with the direction
\* the device makes of normalize(vec3(0.))
ViewIndependentColour ==
    shader # NoShader => \A p \in Shaded : shader.output[p].dir = shader.device.normalizeZero


\* the command at the head of the device queue was encoded by argsort
ArgsortRuns ==
    /\ queue # <<>>
    /\ Head(queue).op \in {"clearBuffer", "copyValues", "copyInitialIndices", "sortPass"}

\* C35: no command of argsort writes the key buffer of the caller or any
\* other buffer than the sorter's valuesBuffer and indicesBuffer, and when an
\* argsort of the DepthSorter ends the depth buffer holds, in their order,
\* the keys that were copied in
ArgsortLeavesInput ==
    [][/\ ArgsortRuns =>
            <<depthBuffer, positionsBuffer, projMatrixBuffer, indexBuffer,
              drawIndexBuffer, initialIndexBuffer>>'
                = <<depthBuffer, positionsBuffer, projMatrixBuffer, indexBuffer,
                    drawIndexBuffer, initialIndexBuffer>>
       /\ completed' # completed => depthBuffer' = sortedKeys']_vars

\* an argsort of the DepthSorter has ended and has permuted the keys in the
\* sorter's buffer, while the depth buffer holds them as they were
ArgsortLeavesInputWitness ==
    /\ nPadded > 0
    /\ completed >= 1
    /\ pc = "sorted"
    /\ depthBuffer = sortedKeys
    /\ valuesBuffer # depthBuffer
    /\ indicesBuffer # initialIndexBuffer

\* a renderer whose destroyImpl has run
Released(r) == ticked[r] /\ resources[r] = {}

\* C36: no double release and no use after release. An animation tick runs
\* only on a renderer that still holds every resource it was constructed
\* with; a tick runs destroyImpl at most once, only with destroyCallback set,
\* each of its destroy calls is on a resource not destroyed before, and the
\* tick neither draws nor requests another frame; once destroyImpl has run
\* the renderer has no callback scheduled, nothing on its device queue, and
\* its resources and buffers never change again, whatever destroy() calls
\* follow
NoDoubleRelease ==
    [][\A r \in Renderers :
        /\ Animate(r) =>
              /\ resources[r] = RendererResources
              /\ Occurrences(tick'.log, "destroyImpl") <= 1
              /\ Occurrences(tick'.log, "destroyImpl") = 1 =>
                    /\ destroyCallback[r] # -1
                    /\ \A x, y \in 1..Len(DestroyImplCalls) :
                          /\ DestroyImplCalls[x] \in resources[r]
                          /\ DestroyImplCalls[x] = DestroyImplCalls[y] => x = y
                    /\ DestroyImpl(resources[r]) = {}
                    /\ resources'[r] = {}
                    /\ tick'.log = <<"destroyImpl">>
                    /\ scheduled'[r] = <<>>
        /\ Released(r) =>
              /\ scheduled[r] = <<>> /\ scheduled'[r] = <<>>
              /\ devQueue[r] = <<>> /\ devQueue'[r] = <<>>
              /\ resources'[r] = {}
              /\ mem'[r] = mem[r]
              /\ depthSortMatrix'[r] = depthSortMatrix[r]]_vars

\* a released renderer on which destroy() has been called again, the caller
\* waiting
NoDoubleReleaseWitness ==
    \E r \in Renderers, l \in Loads :
        /\ Released(r)
        /\ loadPc[l] = "awaitDestroy"
        /\ victim[l] = r
        /\ destroyCallback[r] = l

\* a renderer whose animation loop is running: a callback of it is scheduled
Live(r) == scheduled[r] # <<>>

\* C37: single live renderer. At any time at most one renderer has a running
\* animation loop, and a renderer whose loop is running is the one
\* currentRenderer refers to
SingleLiveRenderer ==
    /\ Cardinality({r \in Renderers : Live(r)}) <= 1
    /\ \A r \in Renderers : Live(r) => currentRenderer = r

\* ------------------------------------------------ camera change and redraw
\* the six deltas of an InteractiveCamera: translation, then rotation
Pending(ic) == <<ic.dTX, ic.dTY, ic.dTZ, ic.dRX, ic.dRY, ic.dRZ>>

\* ic with nothing pending
ZeroDeltas(ic) ==
    [ic EXCEPT !.dTX = 0, !.dTY = 0, !.dTZ = 0, !.dRX = 0, !.dRY = 0, !.dRZ = 0]

\* the change the event e makes on its own: what its listener leaves
\* pending when nothing was pending before
ChangeOf(ic, e) == Pending(createCallbacks(ZeroDeltas(ic), e))

\* the listener of e adds the change of e to what is pending
Accumulates(e) ==
    \A x \in 1..6 :
        Pending(interactive')[x] = Pending(interactive)[x] + ChangeOf(interactive, e)[x]

\* every event adds its change to the deltas the next frame applies
ChangesAccumulate == \A e \in InputEvents : dispatchEvent(e) => Accumulates(e)

\* an animate call that draws applies the pending deltas of a dirty camera to
\* it, zeroes them and clears the dirty flag, and takes the uniforms and the
\* sort matrix from the camera so obtained; one that does not draw leaves
\* the InteractiveCamera as it is; the dirty flag is cleared only by an
\* animate call that draws
GetCameraOncePerFrame ==
    /\ animate =>
          /\ viewer'.drew <=> (interactive.dirty \/ viewer.scheduled = "force")
          /\ ~viewer'.drew => interactive' = interactive
          /\ viewer'.drew =>
                /\ interactive'.camera =
                       IF interactive.dirty
                       THEN rotate(translate(interactive.camera, interactive.dTX,
                                             interactive.dTY, interactive.dTZ),
                                   interactive.dRX, interactive.dRY, interactive.dRZ)
                       ELSE interactive.camera
                /\ interactive.dirty => Pending(interactive') = <<0, 0, 0, 0, 0, 0>>
                /\ ~interactive.dirty => Pending(interactive') = Pending(interactive)
                /\ ~interactive'.dirty
                /\ viewer'.uniforms = interactive'.camera
                /\ viewer'.depthSortMatrix = interactive'.camera
    /\ (interactive.dirty /\ ~interactive'.dirty) =>
          /\ viewer'.drew
          /\ viewer'.uniforms = interactive'.camera
          /\ viewer'.depthSortMatrix = interactive'.camera

\* a dirty camera is followed by a frame drawn from the camera as it then is
RedrawFollows ==
    interactive.dirty ~>
        (/\ ~interactive.dirty
         /\ viewer.drew
         /\ viewer.uniforms = interactive.camera
         /\ viewer.depthSortMatrix = interactive.camera)

\* C38: camera change leads to redraw. With one renderer running and no
\* destroy pending, every event that marks the camera dirty is eventually
\* followed by a drawn frame whose uniforms and sort matrix include the
\* change of that event: the event adds its change to the deltas, getCamera
\* applies the accumulated deltas exactly once, zeroes all six and clears
\* the dirty flag, and the dirty flag is never cleared in a tick that does
\* not draw
CameraChangeLeadsToRedraw ==
    /\ [][ChangesAccumulate /\ GetCameraOncePerFrame]_vars
    /\ RedrawFollows

\* the part of it that does not depend on how the listeners fill the deltas
RedrawAfterCameraChange ==
    /\ [][GetCameraOncePerFrame]_vars
    /\ RedrawFollows

\* the changes of key presses do accumulate while no wheel or mouse event
\* comes between them
KeyChangesAccumulate ==
    [][\A e \in InputEvents :
          (dispatchEvent(e) /\ e.type \notin {"wheel", "mousemove"}) => Accumulates(e)]_vars

====
